---- MODULE Spec2Model ----
(***************************************************************************)
(* Focus Session & Pod Coordination Engine of max-focus-bot.               *)
(*                                                                         *)
(* The store (PostgresDatabase) is modelled table by table: users,         *)
(* user_stats, pomodoro_sessions, pods and notifications.  The service     *)
(* methods of PomodoroService, PodService and GamificationService are      *)
(* operators over a record `db` holding the five tables; an action of      *)
(* Spec runs one service call to its end (calls executed one at a time).   *)
(* Time is a clock counted in units of 30 seconds.                         *)
(***************************************************************************)
EXTENDS Integers, Sequences, FiniteSets, TLC

VARIABLES now, steps, users, stats, sessions, pods, notifications, last, procs,
          calc, timers, cron, completers

storeVars == <<users, stats, sessions, pods, notifications>>
vars == <<now, steps, users, stats, sessions, pods, notifications, last, procs,
          calc, timers, cron, completers>>

(***************************************************************************)
(* Bounds of the model.                                                    *)
(***************************************************************************)
MaxSessions == 2
MaxPods == 1
MaxSteps == 4
MaxCalls == 1
MaxDays == 4
MaxBase == 3
MaxStreak == 20

(***************************************************************************)
(* Inputs.  Durations are minutes; the HTTP API passes any number on.      *)
(***************************************************************************)
Users == {"u1", "u2"}
Durations == {10, 11}
PodDurations == {10}
Codes == {"A4F2B9E1", "0C7D11AA"}
TaskActions == {"completed", "skipped"}
NoAction == "none"
NoTime == -1
NoPod == 0
NoStats == [absent |-> TRUE]

UnitsPerMinute == 2
DayUnits == 24 * 60 * UnitsPerMinute
TickSteps == {19, DayUnits}

NotificationTypes ==
  {"daily_reminder", "achievement_unlocked", "streak_warning", "weekly_stats",
   "pod_invite", "pod_started", "pod_completed"}

ACHIEVEMENTS ==
  << [id |-> "first_focus",     type |-> "pomodoros",   count |-> 1,  reward |-> 5],
     [id |-> "focus_streak_3",  type |-> "streak",      count |-> 3,  reward |-> 10],
     [id |-> "focus_streak_7",  type |-> "streak",      count |-> 7,  reward |-> 25],
     [id |-> "task_master",     type |-> "tasks",       count |-> 10, reward |-> 15],
     [id |-> "pod_pioneer",     type |-> "pods",        count |-> 1,  reward |-> 10],
     [id |-> "early_bird",      type |-> "focus_hours", count |-> 5,  reward |-> 20],
     [id |-> "focus_master",    type |-> "pomodoros",   count |-> 25, reward |-> 50],
     [id |-> "marathon_runner", type |-> "focus_hours", count |-> 50, reward |-> 100] >>

AchievementIds == {ACHIEVEMENTS[i].id : i \in 1..Len(ACHIEVEMENTS)}

Range(f) == {f[i] : i \in DOMAIN f}

Max(a, b) == IF a > b THEN a ELSE b

\* Date.toDateString(): the calendar day a clock value falls on
DateString(t) == t \div DayUnits

(***************************************************************************)
(* The store as one value, and the tables of a fresh installation.         *)
(***************************************************************************)
DB ==
  [users |-> users, stats |-> stats, sessions |-> sessions, pods |-> pods,
   notifications |-> notifications]

\* handleStart: the record created for a user on first contact
NewUser(t) ==
  [focusCoins |-> 0, totalPomodoros |-> 0, totalFocusMinutes |-> 0,
   completedTasks |-> 0, currentStreak |-> 0, bestStreak |-> 0,
   lastActiveDate |-> t, achievements |-> << >>]

(***************************************************************************)
(* GamificationService                                                     *)
(***************************************************************************)
createNotification(db, userId, type) ==
  [db EXCEPT !.notifications[userId][type] = @ + 1]

awardFocusCoins(db, userId, amount) ==
  [db EXCEPT !.users[userId].focusCoins = @ + amount]

AchievementById(id) ==
  CHOOSE a \in Range(ACHIEVEMENTS) : a.id = id

\* user.achievements.includes(achievementId)
AlreadyUnlocked(user, achievementId) ==
  achievementId \in Range(user.achievements)

unlockAchievement(db, userId, achievementId) ==
  IF AlreadyUnlocked(db.users[userId], achievementId)
    THEN [ok |-> FALSE, db |-> db]
  ELSE IF achievementId \notin AchievementIds
    THEN [ok |-> FALSE, db |-> db]
  ELSE LET a  == AchievementById(achievementId)
           d1 == [db EXCEPT !.users[userId].achievements = Append(@, achievementId)]
           d2 == awardFocusCoins(d1, userId, a.reward)
           d3 == createNotification(d2, userId, "achievement_unlocked")
       IN [ok |-> TRUE, db |-> d3]

RECURSIVE StreakLoop(_, _, _, _)
StreakLoop(db, userId, streak, i) ==
  IF i > Len(ACHIEVEMENTS) THEN db
  ELSE LET a == ACHIEVEMENTS[i]
       IN IF a.type = "streak" /\ a.count = streak
            THEN StreakLoop(unlockAchievement(db, userId, a.id).db, userId, streak, i + 1)
            ELSE StreakLoop(db, userId, streak, i + 1)

checkStreakAchievements(db, userId, streak) == StreakLoop(db, userId, streak, 1)

\* a "yesterday" that is taken two days back
YesterdayTwoBack(t) == DateString(t - 2 * DayUnits)

\* new Date(Date.now() - 24 * 60 * 60 * 1000).toDateString()
Yesterday(t) == DateString(t - DayUnits)

\* an update that lets bestStreak follow currentStreak down
updateStreakBestFollows(db, userId, t) ==
  LET user == db.users[userId]
  IN IF DateString(user.lastActiveDate) = DateString(t) THEN db
     ELSE LET currentStreak == IF DateString(user.lastActiveDate) = Yesterday(t)
                                 THEN user.currentStreak + 1 ELSE 1
          IN checkStreakAchievements(
               [db EXCEPT !.users[userId].currentStreak = currentStreak,
                          !.users[userId].bestStreak = currentStreak,
                          !.users[userId].lastActiveDate = t],
               userId, currentStreak)

updateStreak(db, userId, t) ==
  LET user       == db.users[userId]
      today      == DateString(t)
      lastActive == DateString(user.lastActiveDate)
      yesterday  == Yesterday(t)
  IN IF lastActive = today THEN db
     ELSE LET currentStreak == IF lastActive = yesterday
                                 THEN user.currentStreak + 1 ELSE 1
              bestStreak    == Max(user.bestStreak, currentStreak)
              d1 == [db EXCEPT !.users[userId].currentStreak = currentStreak,
                               !.users[userId].bestStreak = bestStreak,
                               !.users[userId].lastActiveDate = t]
          IN checkStreakAchievements(d1, userId, currentStreak)

\* db.getUserPods: the pods that list the user as a participant
getUserPods(db, userId) ==
  {p \in DOMAIN db.pods :
     \E k \in DOMAIN db.pods[p].participants :
        db.pods[p].participants[k].userId = userId}

\* a requirement test that wants the pomodoro count above the threshold
checkAchievementRequirementAbove(db, userId, user, a) ==
  CASE a.type = "pomodoros"   -> user.totalPomodoros > a.count
    [] a.type = "tasks"       -> user.completedTasks >= a.count
    [] a.type = "streak"      -> user.currentStreak >= a.count
    [] a.type = "focus_hours" -> (user.totalFocusMinutes \div 60) >= a.count
    [] a.type = "pods"        ->
         Cardinality({p \in getUserPods(db, userId) :
                        db.pods[p].creatorId = userId}) >= a.count
    [] OTHER -> FALSE

checkAchievementRequirement(db, userId, user, a) ==
  CASE a.type = "pomodoros"   -> user.totalPomodoros >= a.count
    [] a.type = "tasks"       -> user.completedTasks >= a.count
    [] a.type = "streak"      -> user.currentStreak >= a.count
    [] a.type = "focus_hours" -> (user.totalFocusMinutes \div 60) >= a.count
    [] a.type = "pods"        ->
         Cardinality({p \in getUserPods(db, userId) :
                        db.pods[p].creatorId = userId}) >= a.count
    [] OTHER -> FALSE

\* the loop of checkAchievements; `user` is the record read before the loop
RECURSIVE SweepLoop(_, _, _, _, _)
SweepLoop(db, userId, user, i, unlocked) ==
  IF i > Len(ACHIEVEMENTS) THEN [db |-> db, unlocked |-> unlocked]
  ELSE LET a == ACHIEVEMENTS[i]
       IN IF AlreadyUnlocked(user, a.id)
            THEN SweepLoop(db, userId, user, i + 1, unlocked)
          ELSE IF checkAchievementRequirement(db, userId, user, a)
            THEN LET r == unlockAchievement(db, userId, a.id)
                 IN SweepLoop(r.db, userId, user, i + 1,
                              IF r.ok THEN Append(unlocked, a.id) ELSE unlocked)
          ELSE SweepLoop(db, userId, user, i + 1, unlocked)

checkAchievements(db, userId) ==
  SweepLoop(db, userId, db.users[userId], 1, << >>)

\* a rounding that cuts the fraction off
RoundTenthsDown(x10) == x10 \div 10

\* Math.round of a positive number given in tenths
RoundTenths(x10) == (x10 + 5) \div 10

calculatePomodoroReward(baseReward, streak, inPod) ==
  LET streakBonus10 == IF streak \div 3 < 5 THEN streak \div 3 ELSE 5
      reward10 == 10 * baseReward + baseReward * streakBonus10
                  + (IF inPod THEN baseReward * 5 ELSE 0)
  IN RoundTenths(reward10)

(***************************************************************************)
(* PomodoroService                                                         *)
(***************************************************************************)
\* existingSessions.find(s => !s.completed && !s.endTime)
IsOpen(s) == ~s.completed /\ s.endTime = NoTime

\* a lookup that tests the end time the wrong way round
HasOpenSessionEnded(db, userId) ==
  \E i \in DOMAIN db.sessions :
     /\ db.sessions[i].userId = userId
     /\ ~db.sessions[i].completed
     /\ db.sessions[i].endTime # NoTime

HasOpenSession(db, userId) ==
  \E i \in DOMAIN db.sessions :
     db.sessions[i].userId = userId /\ IsOpen(db.sessions[i])

startSession(db, userId, duration, podId, t) ==
  IF HasOpenSession(db, userId)
    THEN [ok |-> FALSE, db |-> db]
  ELSE LET session == [userId |-> userId, duration |-> duration, startTime |-> t,
                       endTime |-> NoTime, completed |-> FALSE,
                       taskAction |-> NoAction, podId |-> podId, reward |-> 0]
           d1 == [db EXCEPT !.sessions = Append(@, session)]
       IN [ok |-> TRUE, db |-> updateStreak(d1, userId, t)]

\* elapsed minutes rounded up instead of down
ActualMinutesCeil(session, t) ==
  (t - session.startTime + UnitsPerMinute - 1) \div UnitsPerMinute

\* Math.floor((Date.now() - session.startTime.getTime()) / 60000)
ActualMinutes(session, t) == (t - session.startTime) \div UnitsPerMinute

\* a threshold that leaves out the rate 0.9 itself
RewardGrantedStrict(actualMinutes, duration, isEarlyCompletion) ==
  (10 * actualMinutes > 9 * duration) \/ ~isEarlyCompletion

\* completionRate >= 0.9 || !isEarlyCompletion
RewardGranted(actualMinutes, duration, isEarlyCompletion) ==
  (10 * actualMinutes >= 9 * duration) \/ ~isEarlyCompletion

updateUserStats(db, userId, minutes, coins) ==
  LET old == IF db.stats[userId] = NoStats
               THEN [weekPomodoros |-> 0, weekFocusMinutes |-> 0,
                     weekTasksCompleted |-> 0, weekFocusCoins |-> 0,
                     todayPomodoros |-> 0, todayFocusMinutes |-> 0]
               ELSE db.stats[userId]
  IN [db EXCEPT !.stats[userId] =
        [old EXCEPT !.todayPomodoros = @ + 1,
                    !.todayFocusMinutes = @ + minutes,
                    !.weekPomodoros = @ + 1,
                    !.weekFocusMinutes = @ + minutes,
                    !.weekFocusCoins = @ + coins]]

\* a guard that takes a session with an end time for an unfinished one
CompletedGuardNoEndTime(session) ==
  session.completed /\ session.endTime = NoTime

\* the guard `if (session.completed) throw`
CompletedGuard(session) == session.completed

completeSession(db, sessionId, taskAction, isEarlyCompletion, t) ==
  IF sessionId \notin DOMAIN db.sessions
    THEN [result |-> "SessionNotFound", db |-> db, reward |-> 0,
          achievements |-> << >>, actualMinutes |-> 0]
  ELSE IF CompletedGuard(db.sessions[sessionId])
    THEN [result |-> "AlreadyCompleted", db |-> db, reward |-> 0,
          achievements |-> << >>, actualMinutes |-> 0]
  ELSE
    LET session == db.sessions[sessionId]
        user == db.users[session.userId]
        actualMinutes == ActualMinutes(session, t)
        granted == RewardGranted(actualMinutes, session.duration, isEarlyCompletion)
        reward == IF granted
                    THEN calculatePomodoroReward(1, user.currentStreak,
                                                 session.podId # NoPod)
                    ELSE 0
        d1 == IF granted
                THEN [db EXCEPT
                        !.users[session.userId].totalPomodoros = user.totalPomodoros + 1,
                        !.users[session.userId].totalFocusMinutes =
                            user.totalFocusMinutes + actualMinutes,
                        !.users[session.userId].focusCoins = user.focusCoins + reward]
                ELSE [db EXCEPT
                        !.users[session.userId].totalFocusMinutes =
                            user.totalFocusMinutes + actualMinutes]
        d2 == IF granted
                THEN updateUserStats(d1, session.userId, actualMinutes, reward)
                ELSE d1
        sweep == IF granted
                   THEN checkAchievements(d2, session.userId)
                   ELSE [db |-> d2, unlocked |-> << >>]
        d3 == [sweep.db EXCEPT !.sessions[sessionId].completed = TRUE,
                               !.sessions[sessionId].endTime = t,
                               !.sessions[sessionId].taskAction = taskAction,
                               !.sessions[sessionId].reward = reward]
    IN [result |-> "ok", db |-> d3, reward |-> reward,
        achievements |-> sweep.unlocked, actualMinutes |-> actualMinutes]

\* a cancel that forgets to stamp the end time
cancelSessionNoEndTime(db, sessionId, t) ==
  IF sessionId \notin DOMAIN db.sessions
    THEN [ok |-> FALSE, db |-> db]
  ELSE [ok |-> TRUE,
        db |-> [db EXCEPT !.sessions[sessionId].completed = FALSE]]

cancelSession(db, sessionId, t) ==
  IF sessionId \notin DOMAIN db.sessions
    THEN [ok |-> FALSE, db |-> db]
  ELSE [ok |-> TRUE,
        db |-> [db EXCEPT !.sessions[sessionId].completed = FALSE,
                          !.sessions[sessionId].endTime = t]]

getActiveSession(db, userId) ==
  {i \in DOMAIN db.sessions :
     db.sessions[i].userId = userId /\ IsOpen(db.sessions[i])}

(***************************************************************************)
(* PodService                                                              *)
(***************************************************************************)
\* pods.invite_code is UNIQUE: the INSERT of a code already stored fails
InviteCodeTaken(db, inviteCode) ==
  \E p \in DOMAIN db.pods : db.pods[p].inviteCode = inviteCode

createPod(db, creatorId, duration, inviteCode) ==
  IF InviteCodeTaken(db, inviteCode)
    THEN [ok |-> FALSE, db |-> db]
  ELSE LET creator == [userId |-> creatorId, isCreator |-> TRUE,
                       taskAction |-> NoAction, taskCompleted |-> FALSE]
           pod == [inviteCode |-> inviteCode, creatorId |-> creatorId,
                   duration |-> duration, participants |-> <<creator>>,
                   status |-> "waiting", startTime |-> NoTime, endTime |-> NoTime]
           d1 == [db EXCEPT !.pods = Append(@, pod)]
       IN [ok |-> TRUE, db |-> checkAchievements(d1, creatorId).db]

\* a membership test that only recognises the creator
AlreadyJoinedCreatorOnly(pod, userId) == pod.creatorId = userId

\* pod.participants.some(p => p.userId === userId)
AlreadyJoined(pod, userId) ==
  \E k \in DOMAIN pod.participants : pod.participants[k].userId = userId

\* a guard that only turns away pods that have completed
JoinAllowedUntilCompleted(pod) == pod.status # "completed"

\* the guard `if (pod.status !== PodStatus.WAITING) throw` of joinPod
JoinAllowed(pod) == pod.status = "waiting"

joinPod(db, podId, userId) ==
  IF podId \notin DOMAIN db.pods
    THEN [result |-> "PodNotFound", db |-> db]
  ELSE IF ~JoinAllowed(db.pods[podId])
    THEN [result |-> "PodAlreadyStarted", db |-> db]
  ELSE IF AlreadyJoined(db.pods[podId], userId)
    THEN [result |-> "ok", db |-> db]
  ELSE LET participant == [userId |-> userId, isCreator |-> FALSE,
                           taskAction |-> NoAction, taskCompleted |-> FALSE]
           d1 == [db EXCEPT !.pods[podId].participants = Append(@, participant)]
       IN [result |-> "ok",
           db |-> createNotification(d1, db.pods[podId].creatorId, "pod_invite")]

\* the loop over pod.participants that starts one session each; the first
\* startSession that throws ends the loop and the call
RECURSIVE FanOut(_, _, _, _, _)
FanOut(db, podId, participants, k, t) ==
  IF k > Len(participants) THEN [ok |-> TRUE, db |-> db]
  ELSE LET r == startSession(db, participants[k].userId,
                             db.pods[podId].duration, podId, t)
       IN IF r.ok THEN FanOut(r.db, podId, participants, k + 1, t)
          ELSE [ok |-> FALSE, db |-> db]

\* a createNotification for every participant but the creator
RECURSIVE NotifyOthers(_, _, _, _, _)
NotifyOthers(db, participants, creatorId, type, k) ==
  IF k > Len(participants) THEN db
  ELSE IF participants[k].userId # creatorId
    THEN NotifyOthers(createNotification(db, participants[k].userId, type),
                      participants, creatorId, type, k + 1)
  ELSE NotifyOthers(db, participants, creatorId, type, k + 1)

RECURSIVE NotifyAll(_, _, _, _)
NotifyAll(db, participants, type, k) ==
  IF k > Len(participants) THEN db
  ELSE NotifyAll(createNotification(db, participants[k].userId, type),
                 participants, type, k + 1)

startPod(db, podId, t) ==
  IF podId \notin DOMAIN db.pods
    THEN [result |-> "PodNotFound", db |-> db]
  ELSE IF db.pods[podId].status # "waiting"
    THEN [result |-> "InvalidState", db |-> db]
  ELSE LET pod == db.pods[podId]
           d1 == [db EXCEPT !.pods[podId].status = "active",
                            !.pods[podId].startTime = t,
                            !.pods[podId].endTime =
                                t + pod.duration * UnitsPerMinute]
           fan == FanOut(d1, podId, pod.participants, 1, t)
       IN IF ~fan.ok
            THEN [result |-> "SessionAlreadyActive", db |-> fan.db]
            ELSE [result |-> "ok",
                  db |-> NotifyOthers(fan.db, pod.participants, pod.creatorId,
                                      "pod_started", 1)]

\* a completePod that takes a pod in any status
completePodAnyStatus(db, podId, t) ==
  IF podId \notin DOMAIN db.pods
    THEN [result |-> "PodNotFound", db |-> db]
  ELSE [result |-> "ok",
        db |-> NotifyAll([db EXCEPT !.pods[podId].status = "completed",
                                    !.pods[podId].endTime = t],
                         db.pods[podId].participants, "pod_completed", 1)]

completePod(db, podId, t) ==
  IF podId \notin DOMAIN db.pods
    THEN [result |-> "PodNotFound", db |-> db]
  ELSE IF db.pods[podId].status # "active"
    THEN [result |-> "InvalidState", db |-> db]
  ELSE LET pod == db.pods[podId]
           d1 == [db EXCEPT !.pods[podId].status = "completed",
                            !.pods[podId].endTime = t]
       IN [result |-> "ok",
           db |-> NotifyAll(d1, pod.participants, "pod_completed", 1)]

\* findIndex(p => p.userId === userId): the first entry of the user
ParticipantIndex(pod, userId) ==
  IF AlreadyJoined(pod, userId)
    THEN CHOOSE k \in DOMAIN pod.participants :
           /\ pod.participants[k].userId = userId
           /\ \A j \in 1..(k - 1) : pod.participants[j].userId # userId
    ELSE 0

updateParticipantAction(db, podId, userId, action) ==
  IF podId \notin DOMAIN db.pods
    THEN [result |-> "PodNotFound", db |-> db]
  ELSE IF ParticipantIndex(db.pods[podId], userId) = 0
    THEN [result |-> "ParticipantNotFound", db |-> db]
  ELSE LET k == ParticipantIndex(db.pods[podId], userId)
       IN [result |-> "ok",
           db |-> [db EXCEPT
                     !.pods[podId].participants[k].taskAction = action,
                     !.pods[podId].participants[k].taskCompleted =
                         IF action = "completed" THEN TRUE ELSE @]]

\* a cancelPod that also ends the sessions tagged with the pod
cancelPodEndsSessions(db, podId) ==
  IF podId \notin DOMAIN db.pods
    THEN [result |-> "PodNotFound", db |-> db]
  ELSE [result |-> "ok",
        db |-> [db EXCEPT !.pods[podId].status = "cancelled",
                          !.sessions = [i \in DOMAIN db.sessions |->
                             IF db.sessions[i].podId = podId
                               THEN [db.sessions[i] EXCEPT !.completed = TRUE]
                               ELSE db.sessions[i]]]]

cancelPod(db, podId) ==
  IF podId \notin DOMAIN db.pods
    THEN [result |-> "PodNotFound", db |-> db]
  ELSE LET pod == db.pods[podId]
           d1 == [db EXCEPT !.pods[podId].status = "cancelled"]
       IN [result |-> "ok",
           db |-> NotifyOthers(d1, pod.participants, pod.creatorId,
                               "pod_invite", 1)]

\* pod.participants.filter(p => p.userId !== userId)
RECURSIVE FilterOut(_, _)
FilterOut(participants, userId) ==
  IF participants = << >> THEN << >>
  ELSE IF Head(participants).userId # userId
    THEN <<Head(participants)>> \o FilterOut(Tail(participants), userId)
  ELSE FilterOut(Tail(participants), userId)

\* a leave that lets the creator go as well
leavePodAnyone(db, podId, userId) ==
  IF podId \notin DOMAIN db.pods
    THEN [result |-> "PodNotFound", db |-> db]
  ELSE [result |-> "ok",
        db |-> [db EXCEPT !.pods[podId].participants =
                  SelectSeq(@, LAMBDA x : x.userId # userId)]]

leavePod(db, podId, userId) ==
  IF podId \notin DOMAIN db.pods
    THEN [result |-> "PodNotFound", db |-> db]
  ELSE IF db.pods[podId].creatorId = userId
    THEN [result |-> "CreatorCannotLeave", db |-> db]
  ELSE [result |-> "ok",
        db |-> [db EXCEPT !.pods[podId].participants = FilterOut(@, userId)]]

(***************************************************************************)
(* The calls, executed one at a time.  `last` records the call that was    *)
(* made and what it returned to its caller.                                *)
(***************************************************************************)
\* two requests in flight that both reach unlockAchievement
Procs == {1, 2}
UnlockIds == {"first_focus", "focus_streak_3", "no_such_id"}

IdleProc ==
  [pc |-> "idle", userId |-> "none", achievementId |-> "none",
   achievements |-> << >>, focusCoins |-> 0, result |-> "none", calls |-> 0,
   podId |-> NoPod, participants |-> << >>]

\* the five cron tasks of setupScheduledNotifications
TaskNames ==
  {"daily_reminder", "streak_warning", "weekly_stats", "reset_daily", "reset_weekly"}

\* the NotificationService as constructed: no task scheduled, none registered
NoCron ==
  [initialized |-> FALSE, registered |-> {}, running |-> {}, fired |-> 0,
   done |-> {}, jobs |-> [n \in {"reset_daily", "reset_weekly"} |->
               [pc |-> "idle", k |-> 0, stats |-> NoStats]]]

\* a request that is not inside completeSession
IdleCompleter ==
  [pc |-> "idle", sessionId |-> 0, early |-> FALSE, minutes |-> 0, granted |-> FALSE,
   reward |-> 0, user |-> NewUser(0), achievements |-> << >>, result |-> "none",
   calls |-> 0]

\* no reward calculation made yet
NoCalc == [base |-> 0, streak |-> 0, inPod |-> FALSE, reward |-> NoTime]

Call(op, id, user, result, reward) ==
  [op |-> op, id |-> id, user |-> user, result |-> result, reward |-> reward,
   early |-> FALSE]

Commit(db) ==
  /\ users' = db.users
  /\ stats' = db.stats
  /\ sessions' = db.sessions
  /\ pods' = db.pods
  /\ notifications' = db.notifications

\* one more call of a run of at most MaxSteps calls
Step ==
  /\ steps < MaxSteps
  /\ steps' = steps + 1
  /\ UNCHANGED <<procs, calc, timers, cron, completers>>

Init ==
  /\ now = 0
  /\ steps = 0
  /\ users = [u \in Users |-> NewUser(0)]
  /\ stats = [u \in Users |-> NoStats]
  /\ sessions = << >>
  /\ pods = << >>
  /\ notifications = [u \in Users |-> [t \in NotificationTypes |-> 0]]
  /\ last = Call("init", 0, "none", "ok", 0)
  /\ procs = [p \in Procs |-> IdleProc]
  /\ calc = NoCalc
  /\ timers = {}
  /\ cron = NoCron
  /\ completers = [p \in Procs |-> IdleCompleter]

Tick(d) ==
  /\ Step
  /\ now' = now + d
  /\ last' = Call("tick", 0, "none", "ok", 0)
  /\ UNCHANGED storeVars

StartSession(userId, duration) ==
  LET r == startSession(DB, userId, duration, NoPod, now)
  IN /\ Len(r.db.sessions) <= MaxSessions
     /\ Commit(r.db)
     /\ last' = Call("startSession", IF r.ok THEN Len(r.db.sessions) ELSE 0,
                     userId, IF r.ok THEN "ok" ELSE "SessionAlreadyActive", 0)
     /\ Step
     /\ UNCHANGED now

CompleteSession(sessionId, taskAction, isEarlyCompletion) ==
  LET r == completeSession(DB, sessionId, taskAction, isEarlyCompletion, now)
  IN /\ Commit(r.db)
     /\ last' = [Call("completeSession", sessionId,
                      IF sessionId \in DOMAIN sessions
                        THEN sessions[sessionId].userId ELSE "none",
                      r.result, r.reward) EXCEPT !.early = isEarlyCompletion]
     /\ Step
     /\ UNCHANGED now

CancelSession(sessionId) ==
  LET r == cancelSession(DB, sessionId, now)
  IN /\ Commit(r.db)
     /\ last' = Call("cancelSession", sessionId, "none",
                     IF r.ok THEN "ok" ELSE "false", 0)
     /\ Step
     /\ UNCHANGED now

CreatePod(creatorId, duration, inviteCode) ==
  LET r == createPod(DB, creatorId, duration, inviteCode)
  IN /\ Len(r.db.pods) <= MaxPods
     /\ Commit(r.db)
     /\ last' = Call("createPod", IF r.ok THEN Len(r.db.pods) ELSE 0, creatorId,
                     IF r.ok THEN "ok" ELSE "DuplicateInviteCode", 0)
     /\ Step
     /\ UNCHANGED now

JoinPod(podId, userId) ==
  LET r == joinPod(DB, podId, userId)
  IN /\ Commit(r.db)
     /\ last' = Call("joinPod", podId, userId, r.result, 0)
     /\ Step
     /\ UNCHANGED now

StartPod(podId) ==
  LET r == startPod(DB, podId, now)
  IN /\ Len(r.db.sessions) <= MaxSessions
     /\ Commit(r.db)
     /\ last' = Call("startPod", podId, "none", r.result, 0)
     /\ Step
     /\ UNCHANGED now

CompletePod(podId) ==
  LET r == completePod(DB, podId, now)
  IN /\ Commit(r.db)
     /\ last' = Call("completePod", podId, "none", r.result, 0)
     /\ Step
     /\ UNCHANGED now

UpdateParticipantAction(podId, userId, action) ==
  LET r == updateParticipantAction(DB, podId, userId, action)
  IN /\ Commit(r.db)
     /\ last' = Call("updateParticipantAction", podId, userId, r.result, 0)
     /\ Step
     /\ UNCHANGED now

CancelPod(podId) ==
  LET r == cancelPod(DB, podId)
  IN /\ Commit(r.db)
     /\ last' = Call("cancelPod", podId, "none", r.result, 0)
     /\ Step
     /\ UNCHANGED now

LeavePod(podId, userId) ==
  LET r == leavePod(DB, podId, userId)
  IN /\ Commit(r.db)
     /\ last' = Call("leavePod", podId, userId, r.result, 0)
     /\ Step
     /\ UNCHANGED now

Next ==
  \/ \E d \in TickSteps : Tick(d)
  \/ \E u \in Users, d \in Durations : StartSession(u, d)
  \/ \E s \in 1..MaxSessions, e \in BOOLEAN : CompleteSession(s, "completed", e)
  \/ \E s \in 1..MaxSessions : CancelSession(s)
  \/ \E u \in Users, d \in PodDurations, c \in Codes : CreatePod(u, d, c)
  \/ \E p \in 1..MaxPods, u \in Users : JoinPod(p, u)
  \/ \E p \in 1..MaxPods : StartPod(p)
  \/ \E p \in 1..MaxPods : CompletePod(p)
  \/ \E p \in 1..MaxPods, u \in Users, a \in TaskActions :
       UpdateParticipantAction(p, u, a)
  \/ \E p \in 1..MaxPods : CancelPod(p)
  \/ \E p \in 1..MaxPods, u \in Users : LeavePod(p, u)

Spec == Init /\ [][Next]_vars

(***************************************************************************)
(* unlockAchievement as two requests run it: every `await` is a point      *)
(* where the other request may run.  A request keeps what it read in       *)
(* procs[p]; result is what the call returned.                             *)
(***************************************************************************)
othersUnchanged ==
  UNCHANGED <<now, steps, stats, sessions, pods, last, calc, timers, cron, completers>>

\* a request enters unlockAchievement(userId, achievementId)
UnlockCall(p, userId, achievementId) ==
  /\ procs[p].pc = "idle"
  /\ procs[p].calls < MaxCalls
  /\ procs' = [procs EXCEPT ![p] =
                 [IdleProc EXCEPT !.pc = "getUser", !.userId = userId,
                                  !.achievementId = achievementId,
                                  !.calls = procs[p].calls + 1]]
  /\ UNCHANGED <<users, notifications>>
  /\ othersUnchanged

\* await db.getUser; the includes test; ACHIEVEMENTS.find; the local push
UnlockGetUser(p) ==
  /\ procs[p].pc = "getUser"
  /\ LET user == users[procs[p].userId]
     IN IF \/ AlreadyUnlocked(user, procs[p].achievementId)
           \/ procs[p].achievementId \notin AchievementIds
          THEN procs' = [procs EXCEPT ![p].pc = "idle", ![p].result = "false"]
          ELSE procs' = [procs EXCEPT
                           ![p].pc = "updateUser",
                           ![p].achievements =
                               Append(user.achievements, procs[p].achievementId)]
  /\ UNCHANGED <<users, notifications>>
  /\ othersUnchanged

\* await db.updateUser(userId, { achievements })
UnlockUpdateUser(p) ==
  /\ procs[p].pc = "updateUser"
  /\ users' = [users EXCEPT ![procs[p].userId].achievements = procs[p].achievements]
  /\ procs' = [procs EXCEPT ![p].pc = "awardGetUser"]
  /\ UNCHANGED notifications
  /\ othersUnchanged

\* awardFocusCoins: await db.getUser
UnlockAwardGetUser(p) ==
  /\ procs[p].pc = "awardGetUser"
  /\ procs' = [procs EXCEPT ![p].pc = "awardUpdateUser",
                            ![p].focusCoins = users[procs[p].userId].focusCoins]
  /\ UNCHANGED <<users, notifications>>
  /\ othersUnchanged

\* awardFocusCoins: await db.updateUser(userId, { focusCoins: newBalance })
UnlockAwardUpdateUser(p) ==
  /\ procs[p].pc = "awardUpdateUser"
  /\ users' = [users EXCEPT ![procs[p].userId].focusCoins =
                 procs[p].focusCoins + AchievementById(procs[p].achievementId).reward]
  /\ procs' = [procs EXCEPT ![p].pc = "createNotification"]
  /\ UNCHANGED notifications
  /\ othersUnchanged

\* await db.createNotification; return true
UnlockNotify(p) ==
  /\ procs[p].pc = "createNotification"
  /\ notifications' =
       createNotification(DB, procs[p].userId, "achievement_unlocked").notifications
  /\ procs' = [procs EXCEPT ![p].pc = "idle", ![p].result = "true"]
  /\ UNCHANGED users
  /\ othersUnchanged

NextUnlock ==
  \/ \E p \in Procs, u \in Users, a \in UnlockIds : UnlockCall(p, u, a)
  \/ \E p \in Procs : UnlockGetUser(p)
  \/ \E p \in Procs : UnlockUpdateUser(p)
  \/ \E p \in Procs : UnlockAwardGetUser(p)
  \/ \E p \in Procs : UnlockAwardUpdateUser(p)
  \/ \E p \in Procs : UnlockNotify(p)

SpecUnlock == Init /\ [][NextUnlock]_vars

(***************************************************************************)
(* Properties                                                              *)
(***************************************************************************)
OpenSessionsOf(userId) ==
  {i \in DOMAIN sessions : sessions[i].userId = userId /\ IsOpen(sessions[i])}

\* whole minutes between the start of session s and the present
ElapsedMinutes(s) == (now - sessions[s].startTime) \div UnitsPerMinute

RECURSIVE SumRewards(_)
SumRewards(ids) ==
  IF ids = {} THEN 0
  ELSE LET id == CHOOSE x \in ids : TRUE
       IN (IF id \in AchievementIds THEN AchievementById(id).reward ELSE 0)
          + SumRewards(ids \ {id})

StatsOrZero(st) ==
  IF st = NoStats
    THEN [weekPomodoros |-> 0, weekFocusMinutes |-> 0, weekTasksCompleted |-> 0,
          weekFocusCoins |-> 0, todayPomodoros |-> 0, todayFocusMinutes |-> 0]
    ELSE st

\* C1: with calls executed one at a time every user has at most one open
\* session after every call, and a startSession for a user who has an open
\* session fails and leaves the sessions table as it was.
C1_OneOpenSession ==
  [][ /\ \A u \in Users : (Cardinality(OpenSessionsOf(u)) <= 1)'
      /\ (last'.op = "startSession" /\ OpenSessionsOf(last'.user) # {})
           => (last'.result = "SessionAlreadyActive" /\ sessions' = sessions)
    ]_vars

C1_Witness ==
  /\ last.op = "startSession"
  /\ last.result = "SessionAlreadyActive"
  /\ Cardinality(OpenSessionsOf(last.user)) = 1

\* C2: completeSession on a session that is already completed reports that
\* it is already completed, grants zero coins, and leaves the stored
\* sessions, the user records and the rolling stats unchanged.
C2_CompleteIdempotent ==
  [][ (/\ last'.op = "completeSession"
       /\ last'.id \in DOMAIN sessions
       /\ sessions[last'.id].completed)
        => /\ last'.result = "AlreadyCompleted"
           /\ last'.reward = 0
           /\ UNCHANGED <<users, stats, sessions>>
    ]_vars

C2_Witness ==
  /\ last.op = "completeSession"
  /\ last.result = "AlreadyCompleted"
  /\ sessions[last.id].completed
  /\ sessions[last.id].reward > 0

\* C3: once a session is completed or cancelled, no later completeSession
\* or cancelSession changes its completed flag, its end time or its reward,
\* or credits coins or pomodoros to its user.
C3_TerminalImmutable ==
  [][ \A s \in DOMAIN sessions :
        (sessions[s].completed \/ sessions[s].endTime # NoTime)
          => /\ sessions'[s].completed = sessions[s].completed
             /\ sessions'[s].endTime = sessions[s].endTime
             /\ sessions'[s].reward = sessions[s].reward
             /\ (last'.op \in {"completeSession", "cancelSession"} /\ last'.id = s)
                  => /\ users'[sessions[s].userId].focusCoins =
                          users[sessions[s].userId].focusCoins
                     /\ users'[sessions[s].userId].totalPomodoros =
                          users[sessions[s].userId].totalPomodoros
    ]_vars

\* a completeSession call that got past the guards
CompletionStep == last'.op = "completeSession" /\ last'.result = "ok"

CompletionGranted ==
  \/ 10 * ElapsedMinutes(last'.id) >= 9 * sessions[last'.id].duration
  \/ ~last'.early

\* coins of the achievements the user did not hold before the call
NewAchievementCoins(u) ==
  SumRewards(Range(users'[u].achievements) \ Range(users[u].achievements))

GrantEffects(extraCoins) ==
  LET s == last'.id
      u == sessions[s].userId
      r == calculatePomodoroReward(1, users[u].currentStreak,
                                   sessions[s].podId # NoPod)
  IN /\ users'[u].totalPomodoros = users[u].totalPomodoros + 1
     /\ users'[u].totalFocusMinutes = users[u].totalFocusMinutes + ElapsedMinutes(s)
     /\ users'[u].focusCoins = users[u].focusCoins + r + extraCoins
     /\ stats'[u] # NoStats
     /\ stats'[u].todayPomodoros = StatsOrZero(stats[u]).todayPomodoros + 1
     /\ stats'[u].weekPomodoros = StatsOrZero(stats[u]).weekPomodoros + 1
     /\ sessions'[s].reward = r
     /\ last'.reward = r

\* C4 (as stated): a completion grants a reward iff the rate is at least 0.9
\* or it is not early; when granted, totalPomodoros grows by one,
\* totalFocusMinutes by the elapsed minutes, focusCoins by exactly
\* calculatePomodoroReward(1, currentStreak, podId set), the today and week
\* pomodoro counters by one, and the stored reward is the coins granted.
C4_AsStated ==
  [][ CompletionStep =>
        /\ (last'.reward > 0) <=> CompletionGranted
        /\ CompletionGranted => GrantEffects(0)
    ]_vars

\* C4: a completion grants a reward iff the rate is at least 0.9 or it is
\* not early; when granted, totalPomodoros grows by one, totalFocusMinutes by
\* the elapsed minutes, the today and week pomodoro counters by one, the
\* stored reward is calculatePomodoroReward(1, currentStreak, podId set), and
\* focusCoins grows by that reward plus the coin rewards of the achievements
\* the same call unlocks.
C4_GrantedCompletion ==
  [][ CompletionStep =>
        /\ (last'.reward > 0) <=> CompletionGranted
        /\ CompletionGranted =>
             GrantEffects(NewAchievementCoins(sessions[last'.id].userId))
    ]_vars

C4_Witness ==
  /\ last.op = "completeSession"
  /\ last.result = "ok"
  /\ last.early
  /\ last.reward > 0
  /\ sessions[last.id].reward = last.reward
  /\ users[last.user].focusCoins > last.reward

\* C5: an early completion with a rate below 0.9 stores reward 0, leaves
\* focusCoins, totalPomodoros and the rolling stats unchanged, adds the
\* elapsed whole minutes to totalFocusMinutes and marks the session completed.
C5_EarlyBelowThreshold ==
  [][ (/\ CompletionStep
       /\ last'.early
       /\ 10 * ElapsedMinutes(last'.id) < 9 * sessions[last'.id].duration)
        => LET s == last'.id
               u == sessions[s].userId
           IN /\ last'.reward = 0
              /\ sessions'[s].reward = 0
              /\ sessions'[s].completed
              /\ users'[u].focusCoins = users[u].focusCoins
              /\ users'[u].totalPomodoros = users[u].totalPomodoros
              /\ users'[u].totalFocusMinutes =
                   users[u].totalFocusMinutes + ElapsedMinutes(s)
              /\ stats' = stats
    ]_vars

C5_Witness ==
  /\ last.op = "completeSession"
  /\ last.result = "ok"
  /\ last.early
  /\ last.reward = 0
  /\ sessions[last.id].completed
  /\ users[last.user].totalFocusMinutes > 0
  /\ users[last.user].totalPomodoros = 0

PodTransitions ==
  {<<"waiting", "active">>, <<"active", "completed">>,
   <<"waiting", "cancelled">>, <<"active", "cancelled">>}

\* C6: a pod's status only moves WAITING -> ACTIVE -> COMPLETED or from
\* WAITING or ACTIVE to CANCELLED; a COMPLETED pod never becomes CANCELLED
\* and a CANCELLED pod never changes status.
C6_PodStatusMoves ==
  [][ \A p \in DOMAIN pods :
        \/ pods'[p].status = pods[p].status
        \/ <<pods[p].status, pods'[p].status>> \in PodTransitions
    ]_vars

\* C7: in every pod the creator is the first participant and carries
\* isCreator, no user id occurs twice among the participants, and the list
\* grows only while the pod is WAITING.
C7_Participants ==
  [][ \A p \in DOMAIN pods' :
        LET ps == pods'[p].participants
        IN /\ Len(ps) >= 1
           /\ ps[1].userId = pods'[p].creatorId
           /\ ps[1].isCreator
           /\ \A j, k \in DOMAIN ps : ps[j].userId = ps[k].userId => j = k
           /\ (p \in DOMAIN pods /\ Len(ps) > Len(pods[p].participants))
                => pods[p].status = "waiting"
    ]_vars

C7_Witness ==
  /\ last.op = "joinPod"
  /\ last.result = "PodAlreadyStarted"
  /\ \E p \in DOMAIN pods :
       /\ p = last.id
       /\ pods[p].status = "active"
       /\ pods[p].participants[1].userId = pods[p].creatorId
       /\ \A k \in DOMAIN pods[p].participants :
            pods[p].participants[k].userId # last.user

\* C8: joinPod on a WAITING pod succeeds; for a user already in the list it
\* leaves the pod and the notifications unchanged, and for a new user it
\* appends exactly one participant and sends the creator one notification.
C8_JoinIdempotent ==
  [][ (/\ last'.op = "joinPod"
       /\ last'.id \in DOMAIN pods
       /\ pods[last'.id].status = "waiting")
        => LET p == last'.id
               u == last'.user
               ps == pods[p].participants
               c == pods[p].creatorId
           IN /\ last'.result = "ok"
              /\ IF \E k \in DOMAIN ps : ps[k].userId = u
                   THEN pods' = pods /\ notifications' = notifications
                   ELSE /\ Len(pods'[p].participants) = Len(ps) + 1
                        /\ SubSeq(pods'[p].participants, 1, Len(ps)) = ps
                        /\ pods'[p].participants[Len(ps) + 1].userId = u
                        /\ notifications' =
                             [notifications EXCEPT ![c]["pod_invite"] = @ + 1]
    ]_vars

C8_Witness ==
  /\ last.op = "joinPod"
  /\ last.result = "ok"
  /\ \E p \in DOMAIN pods :
       /\ p = last.id
       /\ pods[p].status = "waiting"
       /\ last.user # pods[p].creatorId
       /\ Len(pods[p].participants) = 2
       /\ notifications[pods[p].creatorId]["pod_invite"] = 1
       /\ steps >= 3

\* C9: an ACTIVE pod has endTime = startTime + duration, and every one of
\* its participants has a session tagged with the pod and of the pod's
\* duration.
C9_ActivePodSessions ==
  \A p \in DOMAIN pods :
    pods[p].status = "active" =>
      /\ pods[p].endTime = pods[p].startTime + pods[p].duration * UnitsPerMinute
      /\ \A k \in DOMAIN pods[p].participants :
           \E i \in DOMAIN sessions :
             /\ sessions[i].userId = pods[p].participants[k].userId
             /\ sessions[i].podId = p
             /\ sessions[i].duration = pods[p].duration

\* C10: unlockAchievement never reports the same achievement unlocked to two
\* calls for the same user, and never credits a user more coins than the
\* rewards of the achievements the user holds, also when two calls interleave
\* at the store reads and writes.
C10_UnlockOnce ==
  /\ \A p, q \in Procs :
       (/\ p # q
        /\ procs[p].userId = procs[q].userId
        /\ procs[p].achievementId = procs[q].achievementId)
         => ~(procs[p].result = "true" /\ procs[q].result = "true")
  /\ \A u \in Users :
       users[u].focusCoins <= SumRewards(Range(users[u].achievements))

(***************************************************************************)
(* updateStreak over the days: the clock moves by half days and any user   *)
(* may become active at any moment.                                        *)
(***************************************************************************)
HalfDay == DayUnits \div 2

StreakTick ==
  /\ now + HalfDay <= MaxDays * DayUnits
  /\ now' = now + HalfDay
  /\ last' = Call("tick", 0, "none", "ok", 0)
  /\ UNCHANGED <<steps, procs, calc, timers, cron, completers>>
  /\ UNCHANGED storeVars

UpdateStreak(userId) ==
  /\ Commit(updateStreak(DB, userId, now))
  /\ last' = Call("updateStreak", 0, userId, "ok", 0)
  /\ UNCHANGED <<now, steps, procs, calc, timers, cron, completers>>

NextStreak ==
  \/ StreakTick
  \/ \E u \in Users : UpdateStreak(u)

SpecStreak == Init /\ [][NextStreak]_vars

\* C11: updateStreak leaves currentStreak, bestStreak and lastActiveDate
\* unchanged when lastActiveDate is today; otherwise currentStreak grows by
\* one when lastActiveDate is exactly one calendar day back and becomes 1 for
\* any larger gap, lastActiveDate is stamped to the present and bestStreak
\* becomes the larger of bestStreak and the new currentStreak.
C11_UpdateStreak ==
  [][ last'.op = "updateStreak" =>
        LET old == users[last'.user]
            new == users'[last'.user]
            gap == (now \div DayUnits) - (old.lastActiveDate \div DayUnits)
        IN IF gap = 0
             THEN /\ new.currentStreak = old.currentStreak
                  /\ new.bestStreak = old.bestStreak
                  /\ new.lastActiveDate = old.lastActiveDate
             ELSE /\ new.currentStreak =
                       (IF gap = 1 THEN old.currentStreak + 1 ELSE 1)
                  /\ new.lastActiveDate = now
                  /\ new.bestStreak =
                       (IF old.bestStreak > new.currentStreak
                          THEN old.bestStreak ELSE new.currentStreak)
    ]_vars

C11_Witness ==
  /\ last.op = "updateStreak"
  /\ users[last.user].currentStreak = 1
  /\ users[last.user].bestStreak = 2
  /\ users[last.user].lastActiveDate = now

(***************************************************************************)
(* calculatePomodoroReward on its own, for every base and streak up to     *)
(* the bounds.                                                             *)
(***************************************************************************)
CalculateReward(baseReward, streak, inPod) ==
  /\ calc' = [base |-> baseReward, streak |-> streak, inPod |-> inPod,
              reward |-> calculatePomodoroReward(baseReward, streak, inPod)]
  /\ UNCHANGED <<now, steps, last, procs, timers, cron, completers>>
  /\ UNCHANGED storeVars

NextReward ==
  \E b \in 0..MaxBase, st \in 0..MaxStreak, p \in BOOLEAN : CalculateReward(b, st, p)

SpecReward == Init /\ [][NextReward]_vars

\* ten times base + base * min(floor(streak/3) * 0.1, 0.5) + (inPod ? base * 0.5 : 0)
ExactReward10(b, st, p) ==
  LET bonus10 == CASE st < 3 -> 0 [] st < 6 -> 1 [] st < 9 -> 2
                   [] st < 12 -> 3 [] st < 15 -> 4 [] OTHER -> 5
  IN 10 * b + b * bonus10 + (IF p THEN 5 * b ELSE 0)

\* C12: calculatePomodoroReward(base, streak, inPod) is the integer nearest
\* to base + base*min(floor(streak/3)*0.1, 0.5) + (inPod ? base*0.5 : 0),
\* halves going up; it is never below base nor above 2*base, and
\* calculatePomodoroReward(1, 9, true) = 2.
C12_RewardFormula ==
  calc # NoCalc =>
    LET x10 == ExactReward10(calc.base, calc.streak, calc.inPod)
    IN /\ 10 * calc.reward <= x10 + 5
       /\ x10 + 5 < 10 * calc.reward + 10
       /\ calc.reward >= calc.base
       /\ calc.reward <= 2 * calc.base
       /\ (calc.base = 1 /\ calc.streak = 9 /\ calc.inPod) => calc.reward = 2

C12_Witness ==
  /\ calc.base = 1
  /\ calc.streak = 9
  /\ calc.inPod
  /\ calc.reward = 2

\* C14: cancelSession on a running session stamps its end, leaves it not
\* completed with reward 0 and leaves the user records and the rolling stats
\* unchanged, after which the owner has no open session; on an absent
\* session id it returns false and changes nothing.
C14_CancelFrame ==
  [][ last'.op = "cancelSession" =>
        IF last'.id \notin DOMAIN sessions
          THEN last'.result = "false" /\ UNCHANGED storeVars
          ELSE IsOpen(sessions[last'.id]) =>
                 /\ last'.result = "ok"
                 /\ sessions'[last'.id].endTime = now
                 /\ ~sessions'[last'.id].completed
                 /\ sessions'[last'.id].reward = 0
                 /\ UNCHANGED <<users, stats>>
                 /\ \A u \in Users :
                      u = sessions[last'.id].userId => (OpenSessionsOf(u) = {})'
    ]_vars

\* a start that succeeded for a user whose earlier session was cancelled
C14_Witness ==
  /\ last.op = "startSession"
  /\ last.result = "ok"
  /\ \E i \in DOMAIN sessions :
       /\ i < last.id
       /\ sessions[i].userId = last.user
       /\ ~sessions[i].completed
       /\ sessions[i].endTime # NoTime
       /\ sessions[i].reward = 0

(***************************************************************************)
(* The bot handlers and the HTTP entry points, with the deferred callbacks *)
(* they arm.  `timers` holds the callbacks that are pending; requests are  *)
(* served one at a time.                                                   *)
(***************************************************************************)
BotDurations == {2}
BotTickUnits == 10 * UnitsPerMinute
MaxBotTicks == 1
BotCode == "A4F2B9E1"

SessionTimer(sessionId, due) == [kind |-> "session", id |-> sessionId, due |-> due]
PodTimer(podId, due) == [kind |-> "pod", id |-> podId, due |-> due]

\* timers.has(sessionId): clearTimeout and timers.delete
ClearTimer(ts, sessionId) ==
  {x \in ts : ~(x.kind = "session" /\ x.id = sessionId)}

\* allPods.find(pod => (ACTIVE || WAITING) && participants.some(...))
getUserActivePod(db, userId) ==
  LET S == {p \in DOMAIN db.pods :
              /\ db.pods[p].status \in {"active", "waiting"}
              /\ AlreadyJoined(db.pods[p], userId)}
  IN IF S = {} THEN NoPod ELSE CHOOSE p \in S : \A q \in S : p <= q

\* getSessionInfo: Math.max(0, totalMs - elapsed)
RemainingUnits(session, t) ==
  Max(0, session.duration * UnitsPerMinute - (t - session.startTime))

\* isEarly = (remainingTotal / totalSeconds) > 0.1
IsEarly(session, t) ==
  10 * RemainingUnits(session, t) > session.duration * UnitsPerMinute

handleFocusStart(db, ts, userId, duration, t) ==
  IF getActiveSession(db, userId) # {}
    THEN [result |-> "SessionAlreadyActive", db |-> db, timers |-> ts]
  ELSE IF /\ getUserActivePod(db, userId) # NoPod
          /\ db.pods[getUserActivePod(db, userId)].status = "active"
    THEN [result |-> "AlreadyInPod", db |-> db, timers |-> ts]
  ELSE LET r == startSession(db, userId, duration, NoPod, t)
       IN IF ~r.ok
            THEN [result |-> "SessionAlreadyActive", db |-> db, timers |-> ts]
            ELSE [result |-> "ok", db |-> r.db,
                  timers |-> ts \cup {SessionTimer(Len(r.db.sessions),
                                                   t + duration * UnitsPerMinute)}]

\* a timeout handler that completes the session itself
handlePomodoroTimeoutCompletes(db, sessionId, t) ==
  IF sessionId \notin DOMAIN db.sessions \/ db.sessions[sessionId].completed
    THEN [result |-> "noop", db |-> db]
    ELSE [result |-> "prompt",
          db |-> completeSession(db, sessionId, "completed", FALSE, t).db]

\* a test that lets the prompt go out for a completed session
TimeoutSkipsNothing(db, sessionId) == sessionId \notin DOMAIN db.sessions

\* if (!session || session.session.completed) return
TimeoutSkips(db, sessionId) ==
  sessionId \notin DOMAIN db.sessions \/ db.sessions[sessionId].completed

handlePomodoroTimeout(db, sessionId, t) ==
  IF TimeoutSkips(db, sessionId)
    THEN [result |-> "noop", db |-> db]
    ELSE [result |-> "prompt", db |-> db]

handleSessionComplete(db, ts, sessionId, action, t) ==
  LET cleared == ClearTimer(ts, sessionId)
  IN IF sessionId \notin DOMAIN db.sessions \/ db.sessions[sessionId].completed
       THEN [result |-> "AlreadyCompleted", db |-> db, timers |-> cleared,
             reward |-> 0, early |-> FALSE]
       ELSE LET isEarly == IsEarly(db.sessions[sessionId], t)
                r == completeSession(db, sessionId, action, isEarly, t)
            IN [result |-> r.result, db |-> r.db, timers |-> cleared,
                reward |-> r.reward, early |-> isEarly]

handleSessionCancel(db, ts, sessionId, t) ==
  LET r == cancelSession(db, sessionId, t)
  IN [result |-> IF r.ok THEN "ok" ELSE "false", db |-> r.db,
      timers |-> ClearTimer(ts, sessionId)]

handlePodStart(db, ts, podId, userId, t) ==
  IF podId \notin DOMAIN db.pods
    THEN [result |-> "PodNotFound", db |-> db, timers |-> ts]
  ELSE IF db.pods[podId].creatorId # userId
    THEN [result |-> "Forbidden", db |-> db, timers |-> ts]
  ELSE IF getActiveSession(db, userId) # {}
    THEN [result |-> "SessionAlreadyActive", db |-> db, timers |-> ts]
  ELSE IF getUserActivePod(db, userId) \notin {NoPod, podId}
    THEN [result |-> "AlreadyInPod", db |-> db, timers |-> ts]
  ELSE LET r == startPod(db, podId, t)
       IN IF r.result # "ok"
            THEN [result |-> r.result, db |-> r.db, timers |-> ts]
            ELSE [result |-> "ok", db |-> r.db,
                  timers |-> ts \cup {PodTimer(podId,
                                 t + db.pods[podId].duration * UnitsPerMinute)}]

handlePodCancel(db, podId, userId) ==
  IF podId \notin DOMAIN db.pods
    THEN [result |-> "PodNotFound", db |-> db]
  ELSE IF db.pods[podId].creatorId # userId
    THEN [result |-> "Forbidden", db |-> db]
  ELSE cancelPod(db, podId)

\* completePod inside try/catch: a throw is logged and nothing else happens
handlePodTimeout(db, podId, t) ==
  LET r == completePod(db, podId, t)
  IN IF r.result = "ok" THEN r ELSE [result |-> "noop", db |-> db]

BotStep ==
  /\ steps < MaxSteps
  /\ steps' = steps + 1
  /\ UNCHANGED <<now, procs, calc, cron, completers>>

BotTick ==
  /\ now + BotTickUnits <= MaxBotTicks * BotTickUnits
  /\ now' = now + BotTickUnits
  /\ last' = Call("tick", 0, "none", "ok", 0)
  /\ UNCHANGED <<steps, procs, calc, timers, cron, completers>>
  /\ UNCHANGED storeVars

HandleFocusStart(userId, duration) ==
  LET r == handleFocusStart(DB, timers, userId, duration, now)
  IN /\ Len(r.db.sessions) <= MaxSessions
     /\ Commit(r.db)
     /\ timers' = r.timers
     /\ last' = Call("handleFocusStart",
                     IF r.result = "ok" THEN Len(r.db.sessions) ELSE 0,
                     userId, r.result, 0)
     /\ BotStep

HandleSessionComplete(sessionId, action) ==
  LET r == handleSessionComplete(DB, timers, sessionId, action, now)
  IN /\ Commit(r.db)
     /\ timers' = r.timers
     /\ last' = [Call("handleSessionComplete", sessionId,
                      IF sessionId \in DOMAIN sessions
                        THEN sessions[sessionId].userId ELSE "none",
                      r.result, r.reward) EXCEPT !.early = r.early]
     /\ BotStep

HandleSessionCancel(sessionId) ==
  LET r == handleSessionCancel(DB, timers, sessionId, now)
  IN /\ Commit(r.db)
     /\ timers' = r.timers
     /\ last' = Call("handleSessionCancel", sessionId, "none", r.result, 0)
     /\ BotStep

\* the callback armed by handleFocusStart runs once its delay has passed
PomodoroTimerFires(sessionId) ==
  /\ \E x \in timers :
       /\ x = SessionTimer(sessionId, x.due)
       /\ x.due <= now
       /\ timers' = timers \ {x}
  /\ LET r == handlePomodoroTimeout(DB, sessionId, now)
     IN /\ Commit(r.db)
        /\ last' = Call("handlePomodoroTimeout", sessionId,
                        sessions[sessionId].userId, r.result, 0)
  /\ UNCHANGED <<now, steps, procs, calc, cron, completers>>

HandlePodStart(podId, userId) ==
  LET r == handlePodStart(DB, timers, podId, userId, now)
  IN /\ Len(r.db.sessions) <= MaxSessions
     /\ Commit(r.db)
     /\ timers' = r.timers
     /\ last' = Call("handlePodStart", podId, userId, r.result, 0)
     /\ BotStep

HandlePodCancel(podId, userId) ==
  LET r == handlePodCancel(DB, podId, userId)
  IN /\ Commit(r.db)
     /\ last' = Call("handlePodCancel", podId, userId, r.result, 0)
     /\ BotStep
     /\ UNCHANGED timers

\* the callback armed by handlePodStart runs once its delay has passed
PodTimerFires(podId) ==
  /\ \E x \in timers :
       /\ x = PodTimer(podId, x.due)
       /\ x.due <= now
       /\ timers' = timers \ {x}
  /\ LET r == handlePodTimeout(DB, podId, now)
     IN /\ Commit(r.db)
        /\ last' = Call("handlePodTimeout", podId, "none", r.result, 0)
  /\ UNCHANGED <<now, steps, procs, calc, cron, completers>>

\* POST /api/pods/:podId/start sent by userId
ApiPodStart(podId, userId) ==
  LET r == startPod(DB, podId, now)
  IN /\ Len(r.db.sessions) <= MaxSessions
     /\ Commit(r.db)
     /\ last' = Call("apiPodStart", podId, userId, r.result, 0)
     /\ BotStep
     /\ UNCHANGED timers

NextBot ==
  \/ BotTick
  \/ \E u \in Users, d \in BotDurations : HandleFocusStart(u, d)
  \/ \E s \in 1..MaxSessions : HandleSessionComplete(s, "completed")
  \/ \E s \in 1..MaxSessions : HandleSessionCancel(s)
  \/ \E s \in 1..MaxSessions : PomodoroTimerFires(s)
  \/ \E s \in 1..MaxSessions : CompleteSession(s, "completed", FALSE)
  \/ \E u \in Users, d \in BotDurations : StartSession(u, d)
  \/ \E u \in Users, d \in PodDurations : CreatePod(u, d, BotCode)
  \/ \E p \in 1..MaxPods, u \in Users : JoinPod(p, u)
  \/ \E p \in 1..MaxPods, u \in Users : HandlePodStart(p, u)
  \/ \E p \in 1..MaxPods, u \in Users : HandlePodCancel(p, u)
  \/ \E p \in 1..MaxPods : PodTimerFires(p)
  \/ \E p \in 1..MaxPods, u \in Users : ApiPodStart(p, u)

SpecBot == Init /\ [][NextBot]_vars

\* C13: a pod start or pod cancel requested by a user who is not the pod's
\* creator is answered Forbidden and leaves the pod's status as it was, on
\* the bot handlers and on the HTTP API alike.
C13_CreatorOnly ==
  [][ (/\ last'.op \in {"handlePodStart", "handlePodCancel", "apiPodStart"}
       /\ last'.id \in DOMAIN pods
       /\ last'.user # pods[last'.id].creatorId)
        => /\ last'.result = "Forbidden"
           /\ pods'[last'.id].status = pods[last'.id].status
    ]_vars

\* C15: the firing of a session's timeout changes nothing in the store and
\* only sends the prompt or does nothing; a session gets its completed flag
\* only in a complete call made for it.
C15_TimeoutNeverCompletes ==
  [][ /\ last'.op = "handlePomodoroTimeout"
           => /\ UNCHANGED storeVars
              /\ last'.result \in {"prompt", "noop"}
      /\ \A s \in DOMAIN sessions :
           (~sessions[s].completed /\ sessions'[s].completed)
             => /\ last'.op \in {"handleSessionComplete", "completeSession"}
                /\ last'.id = s
    ]_vars

C15_Witness ==
  /\ last.op = "handlePomodoroTimeout"
  /\ last.result = "prompt"
  /\ IsOpen(sessions[last.id])
  /\ now >= sessions[last.id].startTime
              + sessions[last.id].duration * UnitsPerMinute

SessionEnded(s) == sessions[s].completed \/ sessions[s].endTime # NoTime

\* C16: no callback is pending for a session that is completed or cancelled,
\* nor for a pod that is COMPLETED or CANCELLED.
C16_NoStaleTimer ==
  \A x \in timers :
    /\ x.kind = "session" => ~SessionEnded(x.id)
    /\ x.kind = "pod" => pods[x.id].status \notin {"completed", "cancelled"}

\* C17: a session timeout that fires after the session was completed, and a
\* pod timeout that fires after the pod was cancelled or completed, changes
\* nothing in the store, pays nothing and sends no prompt.
C17_LateTimeoutNoOp ==
  [][ (\/ /\ last'.op = "handlePomodoroTimeout"
          /\ sessions[last'.id].completed
       \/ /\ last'.op = "handlePodTimeout"
          /\ pods[last'.id].status \in {"completed", "cancelled"})
        => /\ UNCHANGED storeVars
           /\ last'.result = "noop"
           /\ last'.reward = 0
    ]_vars

C17_Witness ==
  /\ last.op = "handlePomodoroTimeout"
  /\ last.result = "noop"
  /\ sessions[last.id].completed
  /\ sessions[last.id].reward > 0
  /\ users[last.user].focusCoins = sessions[last.id].reward + 5

\* C18: leavePod by the creator fails with CreatorCannotLeave and leaves the
\* pod unchanged; by any other user it removes that user's entry and no
\* other and changes nothing else of the pod; the creator is a participant
\* of every pod at all times.
C18_Leave ==
  [][ /\ (last'.op = "leavePod" /\ last'.id \in DOMAIN pods)
           => LET p == last'.id
                  u == last'.user
                  ps == pods[p].participants
              IN IF u = pods[p].creatorId
                   THEN last'.result = "CreatorCannotLeave" /\ pods' = pods
                   ELSE /\ last'.result = "ok"
                        /\ pods' = [pods EXCEPT ![p].participants =
                                      SelectSeq(ps, LAMBDA x : x.userId # u)]
                        /\ Len(pods'[p].participants) =
                             Len(ps) - Cardinality({k \in DOMAIN ps : ps[k].userId = u})
      /\ \A p \in DOMAIN pods' :
           \E k \in DOMAIN pods'[p].participants :
             pods'[p].participants[k].userId = pods'[p].creatorId
    ]_vars

C18_Witness ==
  /\ last.op = "leavePod"
  /\ last.result = "ok"
  /\ last.id \in DOMAIN pods
  /\ last.user # pods[last.id].creatorId
  /\ Len(pods[last.id].participants) = 1
  /\ pods[last.id].participants[1].userId = pods[last.id].creatorId
  /\ notifications[pods[last.id].creatorId]["pod_invite"] = 1

\* C19: no two pods share an invite code, and every createPod succeeds, also
\* when the code it drew belongs to an existing pod: it adds one WAITING pod
\* whose only participant is the creator.
C19_UniqueCodeRetry ==
  [][ /\ \A p, q \in DOMAIN pods' :
           pods'[p].inviteCode = pods'[q].inviteCode => p = q
      /\ last'.op = "createPod"
           => /\ last'.result = "ok"
              /\ Len(pods') = Len(pods) + 1
              /\ pods'[Len(pods')].status = "waiting"
              /\ Len(pods'[Len(pods')].participants) = 1
              /\ pods'[Len(pods')].participants[1].userId = last'.user
    ]_vars

(***************************************************************************)
(* The operations that record a notification as their last step, with the  *)
(* INSERT into notifications allowed to fail.  The rejected INSERT throws  *)
(* out of the operation: what was stored before it stays stored, the       *)
(* notification and those after it are not recorded.                       *)
(***************************************************************************)
\* r is what the operation does from `before` when every INSERT succeeds
NotificationFails(before, r) ==
  IF r.db.notifications # before.notifications
    THEN [result |-> "StoreError",
          db |-> [r.db EXCEPT !.notifications = before.notifications]]
    ELSE [result |-> r.result, db |-> r.db]

Outcome(before, r, fails) ==
  IF fails THEN NotificationFails(before, r) ELSE [result |-> r.result, db |-> r.db]

\* unlockAchievement returns a boolean
unlockResult(db, userId, achievementId) ==
  LET r == unlockAchievement(db, userId, achievementId)
  IN [result |-> IF r.ok THEN "ok" ELSE "false", db |-> r.db]

NotifyingCall(op, id, userId, r, fails) ==
  LET o == Outcome(DB, r, fails)
  IN /\ Commit(o.db)
     /\ last' = [Call(op, id, userId, o.result, 0) EXCEPT !.early = fails]

JoinPodNotifying(podId, userId, fails) ==
  /\ NotifyingCall("joinPod", podId, userId, joinPod(DB, podId, userId), fails)
  /\ Step
  /\ UNCHANGED now

StartPodNotifying(podId, fails) ==
  /\ Len(startPod(DB, podId, now).db.sessions) <= MaxSessions
  /\ NotifyingCall("startPod", podId, "none", startPod(DB, podId, now), fails)
  /\ Step
  /\ UNCHANGED now

CompletePodNotifying(podId, fails) ==
  /\ NotifyingCall("completePod", podId, "none", completePod(DB, podId, now), fails)
  /\ Step
  /\ UNCHANGED now

CancelPodNotifying(podId, fails) ==
  /\ NotifyingCall("cancelPod", podId, "none", cancelPod(DB, podId), fails)
  /\ Step
  /\ UNCHANGED now

UnlockNotifying(userId, achievementId, fails) ==
  /\ NotifyingCall("unlockAchievement", 0, userId,
                   unlockResult(DB, userId, achievementId), fails)
  /\ Step
  /\ UNCHANGED now

NextNotify ==
  \/ \E u \in Users, d \in PodDurations : CreatePod(u, d, BotCode)
  \/ \E p \in 1..MaxPods, u \in Users, f \in BOOLEAN : JoinPodNotifying(p, u, f)
  \/ \E p \in 1..MaxPods, f \in BOOLEAN : StartPodNotifying(p, f)
  \/ \E p \in 1..MaxPods, f \in BOOLEAN : CompletePodNotifying(p, f)
  \/ \E p \in 1..MaxPods, f \in BOOLEAN : CancelPodNotifying(p, f)
  \/ \E u \in Users, a \in UnlockIds, f \in BOOLEAN : UnlockNotifying(u, a, f)

SpecNotify == Init /\ [][NextNotify]_vars

\* what the named operation stores and returns when every INSERT succeeds
Undisturbed(op, id, userId) ==
  CASE op = "joinPod" -> joinPod(DB, id, userId)
    [] op = "startPod" -> startPod(DB, id, now)
    [] op = "completePod" -> completePod(DB, id, now)
    [] op = "cancelPod" -> cancelPod(DB, id)
    [] OTHER -> [result |-> "none", db |-> DB]

\* C20: joinPod, startPod, completePod, cancelPod and unlockAchievement
\* return the same result and leave the same users, stats, sessions and pods
\* whether or not the recording of their notification fails.
C20_NotificationFailureHarmless ==
  [][ /\ last'.op \in {"joinPod", "startPod", "completePod", "cancelPod"}
           => LET r == Undisturbed(last'.op, last'.id, last'.user)
              IN /\ last'.result = r.result
                 /\ users' = r.db.users
                 /\ stats' = r.db.stats
                 /\ sessions' = r.db.sessions
                 /\ pods' = r.db.pods
      /\ \A u \in Users, a \in UnlockIds :
           (last'.op = "unlockAchievement" /\ last'.user = u
              /\ a \notin Range(users[u].achievements)
              /\ a \in Range(users'[u].achievements))
             => /\ last'.result = "ok"
                /\ users' = unlockAchievement(DB, u, a).db.users
    ]_vars

(***************************************************************************)
(* The scheduler of NotificationService: five cron tasks kept in the map   *)
(* scheduledTasks, the three reminders they send and the two resets they   *)
(* run.  cron.registered is the key set of scheduledTasks, cron.running    *)
(* the tasks node-cron would fire.  The hour at which a task fires is left *)
(* open: a running task may fire at any moment.                            *)
(***************************************************************************)
MaxFirings == 2

\* sendNotification: the row is stored, the send to the bot is guarded
sendNotification(db, userId, type) == createNotification(db, userId, type)

\* a weekly condition that also takes a week without a pomodoro
WeeklyStatsDueAnyWeek(db, userId) == db.stats[userId] # NoStats

\* `stats && stats.weekPomodoros > 0`
WeeklyStatsDue(db, userId) ==
  db.stats[userId] # NoStats /\ db.stats[userId].weekPomodoros > 0

\* `!stats || stats.todayPomodoros === 0`
DailyReminderDue(db, userId) ==
  db.stats[userId] = NoStats \/ db.stats[userId].todayPomodoros = 0

\* the three nested conditions of sendStreakWarnings
StreakWarningDue(db, userId, t) ==
  /\ db.users[userId].currentStreak > 0
  /\ DateString(db.users[userId].lastActiveDate) # DateString(t)
  /\ DailyReminderDue(db, userId)

RECURSIVE SendLoop(_, _, _, _)
\* `for (const user of users)`: one sendNotification per user that is due
SendLoop(db, todo, due, type) ==
  IF todo = {} THEN db
  ELSE LET u == CHOOSE x \in todo : TRUE
       IN SendLoop(IF u \in due THEN sendNotification(db, u, type) ELSE db,
                   todo \ {u}, due, type)

sendDailyReminders(db) ==
  SendLoop(db, Users, {u \in Users : DailyReminderDue(db, u)}, "daily_reminder")

sendStreakWarnings(db, t) ==
  SendLoop(db, Users, {u \in Users : StreakWarningDue(db, u, t)}, "streak_warning")

sendWeeklyStats(db) ==
  SendLoop(db, Users, {u \in Users : WeeklyStatsDue(db, u)}, "weekly_stats")

\* a daily reset that clears the weekly pomodoro counter as well
resetDailyStatsAndWeek(db) ==
  [db EXCEPT !.stats = [u \in Users |->
     IF db.stats[u] = NoStats THEN NoStats
     ELSE [db.stats[u] EXCEPT !.todayPomodoros = 0, !.todayFocusMinutes = 0,
                              !.weekPomodoros = 0]]]

\* PomodoroService.resetDailyStats: only users that have a stats row
resetDailyStats(db) ==
  [db EXCEPT !.stats = [u \in Users |->
     IF db.stats[u] = NoStats THEN NoStats
     ELSE [db.stats[u] EXCEPT !.todayPomodoros = 0, !.todayFocusMinutes = 0]]]

\* PomodoroService.resetWeeklyStats
resetWeeklyStats(db) ==
  [db EXCEPT !.stats = [u \in Users |->
     IF db.stats[u] = NoStats THEN NoStats
     ELSE [db.stats[u] EXCEPT !.weekPomodoros = 0, !.weekFocusMinutes = 0,
                              !.weekTasksCompleted = 0, !.weekFocusCoins = 0]]]

SchedFrame == UNCHANGED <<now, steps, procs, calc, timers, completers>>

\* initialize(bot): setupScheduledNotifications schedules and registers all five
Initialize ==
  /\ ~cron.initialized
  /\ cron' = [cron EXCEPT !.initialized = TRUE, !.registered = TaskNames,
                          !.running = TaskNames]
  /\ last' = Call("initialize", 0, "none", "ok", 0)
  /\ SchedFrame
  /\ UNCHANGED storeVars

\* stopAll: task.stop() for every entry, then scheduledTasks.clear()
StopAll ==
  /\ cron.fired < MaxFirings
  /\ cron' = [cron EXCEPT !.running = @ \ cron.registered, !.registered = {},
                          !.fired = @ + 1]
  /\ last' = Call("stopAll", 0, "none", "ok", 0)
  /\ SchedFrame
  /\ UNCHANGED storeVars

\* startAll: task.start() for every entry of scheduledTasks
StartAll ==
  /\ cron.fired < MaxFirings
  /\ cron' = [cron EXCEPT !.running = @ \cup cron.registered, !.fired = @ + 1]
  /\ last' = Call("startAll", 0, "none", "ok", 0)
  /\ SchedFrame
  /\ UNCHANGED storeVars

\* node-cron runs the callback of a task: the store the callback leaves
Fire(name, db) ==
  /\ cron.fired < MaxFirings
  /\ Commit(db)
  /\ cron' = [cron EXCEPT !.fired = @ + 1]
  /\ last' = Call(name, 0, "none", "ok", 0)
  /\ SchedFrame

FireDailyReminder ==
  /\ "daily_reminder" \in cron.running
  /\ Fire("daily_reminder", sendDailyReminders(DB))

FireStreakWarning ==
  /\ "streak_warning" \in cron.running
  /\ Fire("streak_warning", sendStreakWarnings(DB, now))

FireWeeklyStats ==
  /\ "weekly_stats" \in cron.running
  /\ Fire("weekly_stats", sendWeeklyStats(DB))

FireResetDaily ==
  /\ "reset_daily" \in cron.running
  /\ Fire("reset_daily", resetDailyStats(DB))

FireResetWeekly ==
  /\ "reset_weekly" \in cron.running
  /\ Fire("reset_weekly", resetWeeklyStats(DB))

NextSched ==
  \/ Initialize
  \/ StopAll
  \/ StartAll
  \/ FireDailyReminder
  \/ FireStreakWarning
  \/ FireWeeklyStats
  \/ FireResetDaily
  \/ FireResetWeekly
  \/ \E u \in Users, d \in PodDurations : StartSession(u, d)
  \/ \E s \in 1..MaxSessions : CompleteSession(s, NoAction, FALSE)
  \/ Tick(DayUnits)
  \/ \E u \in Users : UpdateStreak(u)

SpecSched == Init /\ [][NextSched]_vars

\* C21: after stopAll no trigger is running, and a startAll that follows an
\* initialize leaves all five triggers running again.
C21_StopStartAll ==
  [][ /\ last'.op = "stopAll" => cron'.running = {}
      /\ (last'.op = "startAll" /\ cron.initialized) => cron'.running = TaskNames
    ]_vars

\* the notification counters after one message of the type to the users of `due`
OneMessageEach(due, type) ==
  [u \in Users |->
     [t \in NotificationTypes |->
        IF t = type /\ u \in due
          THEN notifications[u][t] + 1 ELSE notifications[u][t]]]

\* C22: one firing of a reminder trigger records exactly one message for each
\* user that meets its condition (daily reminder: no pomodoro today; streak
\* warning: a streak above zero, last active on another day, no pomodoro
\* today; weekly summary: a pomodoro this week), none for the others, and
\* leaves users, stats, sessions and pods as they were.
C22_TriggerAudience ==
  [][ /\ last'.op = "daily_reminder" =>
           notifications' = OneMessageEach(
             {u \in Users : StatsOrZero(stats[u]).todayPomodoros = 0},
             "daily_reminder")
      /\ last'.op = "streak_warning" =>
           notifications' = OneMessageEach(
             {u \in Users : /\ users[u].currentStreak > 0
                            /\ DateString(users[u].lastActiveDate) # DateString(now)
                            /\ StatsOrZero(stats[u]).todayPomodoros = 0},
             "streak_warning")
      /\ last'.op = "weekly_stats" =>
           notifications' = OneMessageEach(
             {u \in Users : StatsOrZero(stats[u]).weekPomodoros > 0},
             "weekly_stats")
      /\ last'.op \in {"daily_reminder", "streak_warning", "weekly_stats"} =>
           UNCHANGED <<users, stats, sessions, pods>>
    ]_vars

\* a streak warning went to the one user whose streak is at risk, and a weekly
\* summary to the one user who worked this week
C22_Witness ==
  /\ last.op \in {"streak_warning", "weekly_stats"}
  /\ \E u, v \in Users :
       /\ notifications[u][last.op] = 1
       /\ notifications[v][last.op] = 0
       /\ last.op = "streak_warning" => users[u].currentStreak > 0
       /\ last.op = "weekly_stats" => StatsOrZero(stats[u]).weekPomodoros > 0

WeekCounters(st) ==
  <<StatsOrZero(st).weekPomodoros, StatsOrZero(st).weekFocusMinutes,
    StatsOrZero(st).weekTasksCompleted, StatsOrZero(st).weekFocusCoins>>

DayCounters(st) ==
  <<StatsOrZero(st).todayPomodoros, StatsOrZero(st).todayFocusMinutes>>

\* C23: the daily reset leaves every user's two daily counters at zero and the
\* weekly counters as they were; the weekly reset leaves the four weekly
\* counters at zero and the daily ones as they were; neither touches users,
\* sessions, pods or notifications; and a reset that fires right after the
\* same reset changes nothing.
C23_Resets ==
  [][ /\ last'.op = "reset_daily" =>
           /\ \A u \in Users : /\ DayCounters(stats'[u]) = <<0, 0>>
                               /\ WeekCounters(stats'[u]) = WeekCounters(stats[u])
           /\ UNCHANGED <<users, sessions, pods, notifications>>
      /\ last'.op = "reset_weekly" =>
           /\ \A u \in Users : /\ WeekCounters(stats'[u]) = <<0, 0, 0, 0>>
                               /\ DayCounters(stats'[u]) = DayCounters(stats[u])
           /\ UNCHANGED <<users, sessions, pods, notifications>>
      /\ (last'.op \in {"reset_daily", "reset_weekly"} /\ last.op = last'.op) =>
           stats' = stats
    ]_vars

\* a daily reset cleared the day of a user who keeps a pomodoro in the week, or
\* a weekly reset cleared the week of a user who keeps a pomodoro in the day
C23_Witness ==
  \E u \in Users :
    /\ stats[u] # NoStats
    /\ \/ /\ last.op = "reset_daily"
          /\ stats[u].todayPomodoros = 0
          /\ stats[u].weekPomodoros > 0
       \/ /\ last.op = "reset_weekly"
          /\ stats[u].weekPomodoros = 0
          /\ stats[u].todayPomodoros > 0

(***************************************************************************)
(* completeSession as the event loop runs it: every await on the store is a *)
(* point where another request's completeSession may run.  Each request    *)
(* keeps what it has read in its own locals (completers[p]).               *)
(***************************************************************************)
CompleteFrame == UNCHANGED <<now, steps, pods, last, procs, calc, timers, cron>>

\* a request enters completeSession(sessionId, taskAction, isEarlyCompletion)
CompleteCall(p, sessionId, isEarlyCompletion) ==
  /\ completers[p].pc = "idle"
  /\ completers[p].calls < MaxCalls
  /\ completers' = [completers EXCEPT ![p] =
        [IdleCompleter EXCEPT !.pc = "getSession", !.sessionId = sessionId,
                              !.early = isEarlyCompletion,
                              !.calls = completers[p].calls + 1]]
  /\ UNCHANGED storeVars
  /\ CompleteFrame

\* await db.getSession; the not-found and the already-completed guards
CompleteGetSession(p) ==
  /\ completers[p].pc = "getSession"
  /\ completers' = [completers EXCEPT ![p] =
        IF completers[p].sessionId \notin DOMAIN sessions
          THEN [@ EXCEPT !.pc = "idle", !.result = "SessionNotFound"]
        ELSE IF CompletedGuard(sessions[completers[p].sessionId])
          THEN [@ EXCEPT !.pc = "idle", !.result = "AlreadyCompleted"]
        ELSE [@ EXCEPT !.pc = "getUser"]]
  /\ UNCHANGED storeVars
  /\ CompleteFrame

\* await db.getUser; actualMinutes, completionRate and the reward
CompleteGetUser(p) ==
  /\ completers[p].pc = "getUser"
  /\ LET session == sessions[completers[p].sessionId]
         user == users[session.userId]
         actualMinutes == ActualMinutes(session, now)
         granted == RewardGranted(actualMinutes, session.duration, completers[p].early)
     IN completers' = [completers EXCEPT ![p] =
          [@ EXCEPT !.pc = "updateUser", !.user = user, !.minutes = actualMinutes,
                    !.granted = granted,
                    !.reward = IF granted
                                 THEN calculatePomodoroReward(1, user.currentStreak,
                                                              session.podId # NoPod)
                                 ELSE 0]]
  /\ UNCHANGED storeVars
  /\ CompleteFrame

\* await db.updateUser with totals computed from the user read before
CompleteUpdateUser(p) ==
  /\ completers[p].pc = "updateUser"
  /\ LET c == completers[p]
         u == sessions[c.sessionId].userId
     IN users' = IF c.granted
                   THEN [users EXCEPT
                           ![u].totalPomodoros = c.user.totalPomodoros + 1,
                           ![u].totalFocusMinutes = c.user.totalFocusMinutes + c.minutes,
                           ![u].focusCoins = c.user.focusCoins + c.reward]
                   ELSE [users EXCEPT
                           ![u].totalFocusMinutes = c.user.totalFocusMinutes + c.minutes]
  /\ completers' = [completers EXCEPT ![p].pc =
                      IF completers[p].granted THEN "updateUserStats"
                                               ELSE "updateSession"]
  /\ UNCHANGED <<stats, sessions, pods, notifications>>
  /\ CompleteFrame

\* await this.updateUserStats(session.userId, actualMinutes, reward)
CompleteUpdateUserStats(p) ==
  /\ completers[p].pc = "updateUserStats"
  /\ LET c == completers[p]
         u == sessions[c.sessionId].userId
     IN Commit(updateUserStats(DB, u, c.minutes, c.reward))
  /\ completers' = [completers EXCEPT ![p].pc = "checkAchievements"]
  /\ CompleteFrame

\* achievements = await gamificationService.checkAchievements(session.userId)
CompleteCheckAchievements(p) ==
  /\ completers[p].pc = "checkAchievements"
  /\ LET r == checkAchievements(DB, sessions[completers[p].sessionId].userId)
     IN /\ Commit(r.db)
        /\ completers' = [completers EXCEPT ![p].pc = "updateSession",
                                            ![p].achievements = r.unlocked]
  /\ CompleteFrame

\* await db.updateSession({ completed: true, endTime, taskAction, reward })
CompleteUpdateSession(p) ==
  /\ completers[p].pc = "updateSession"
  /\ sessions' = [sessions EXCEPT ![completers[p].sessionId] =
                    [@ EXCEPT !.completed = TRUE, !.endTime = now,
                              !.taskAction = "completed",
                              !.reward = completers[p].reward]]
  /\ completers' = [completers EXCEPT ![p].pc = "idle", ![p].result = "ok"]
  /\ UNCHANGED <<users, stats, pods, notifications>>
  /\ CompleteFrame

NextComplete ==
  \/ \E u \in Users, d \in PodDurations : StartSession(u, d)
  \/ \E p \in Procs, s \in 1..MaxSessions, e \in BOOLEAN : CompleteCall(p, s, e)
  \/ \E p \in Procs : CompleteGetSession(p)
  \/ \E p \in Procs : CompleteGetUser(p)
  \/ \E p \in Procs : CompleteUpdateUser(p)
  \/ \E p \in Procs : CompleteUpdateUserStats(p)
  \/ \E p \in Procs : CompleteCheckAchievements(p)
  \/ \E p \in Procs : CompleteUpdateSession(p)

SpecComplete == Init /\ [][NextComplete]_vars

\* the largest reward a completeSession call computed for the session
RewardOf(sessionId) ==
  Max(0, Max(IF completers[1].sessionId = sessionId THEN completers[1].reward ELSE 0,
             IF completers[2].sessionId = sessionId THEN completers[2].reward ELSE 0))

RECURSIVE SumSessionRewards(_)
SumSessionRewards(ids) ==
  IF ids = {} THEN 0
  ELSE LET id == CHOOSE x \in ids : TRUE
       IN RewardOf(id) + SumSessionRewards(ids \ {id})

SessionsOf(userId) == {i \in DOMAIN sessions : sessions[i].userId = userId}

\* C24: however the reads and writes of concurrent completeSession calls
\* interleave, once they have all returned a user holds at most one pomodoro
\* per session and no more coins than one reward per session plus the rewards
\* of the achievements held.
C24_NoDoublePay ==
  (\A p \in Procs : completers[p].pc = "idle")
    => \A u \in Users :
         /\ users[u].totalPomodoros <= Cardinality(SessionsOf(u))
         /\ users[u].focusCoins <=
              SumSessionRewards(SessionsOf(u)) + SumRewards(Range(users[u].achievements))

\* the moment the session's time is up
Deadline(s) == sessions[s].startTime + sessions[s].duration * UnitsPerMinute

\* C25: every running session whose deadline has not passed has a timeout
\* pending that is due at its start time plus its duration, whether the bot's
\* focus start, the HTTP API or a pod's fan-out started it.
C25_TimeoutArmed ==
  \A s \in DOMAIN sessions :
    (IsOpen(sessions[s]) /\ now < Deadline(s))
      => SessionTimer(s, Deadline(s)) \in timers

\* C26: every ACTIVE pod has a completion callback pending, whether the bot or
\* the HTTP API started it and whether or not the fan-out raised an error.
C26_PodTimerArmed ==
  \A p \in DOMAIN pods :
    pods[p].status = "active" => \E x \in timers : x.kind = "pod" /\ x.id = p

\* C27: startPod on a pod that is not WAITING, completePod on a pod that is
\* not ACTIVE and joinPod on a pod that is not WAITING each return an error
\* and leave every pod and every session as it was.
C27_StatusGuards ==
  [][ \A p \in DOMAIN pods :
        (/\ last'.id = p
         /\ \/ last'.op = "startPod" /\ pods[p].status # "waiting"
            \/ last'.op = "completePod" /\ pods[p].status # "active"
            \/ last'.op = "joinPod" /\ pods[p].status # "waiting")
          => /\ last'.result \in {"InvalidState", "PodAlreadyStarted"}
             /\ UNCHANGED <<pods, sessions>>
    ]_vars

\* a second startPod, or a completePod on a pod that is not ACTIVE, was turned
\* away
C27_Witness ==
  /\ last.op \in {"startPod", "completePod"}
  /\ last.result = "InvalidState"
  /\ last.id \in DOMAIN pods
  /\ (last.op = "startPod" => pods[last.id].status = "active")
  /\ (last.op = "completePod" => pods[last.id].status # "active")

\* C28: a startPod that fails leaves the pod WAITING and creates no session:
\* the start takes effect for the pod and every participant or for none.
C28_StartAllOrNothing ==
  [][ (/\ last'.op = "startPod"
       /\ last'.result # "ok"
       /\ last'.id \in DOMAIN pods
       /\ pods[last'.id].status = "waiting")
        => /\ pods'[last'.id].status = "waiting"
           /\ sessions' = sessions
    ]_vars

\* C29: completePod and cancelPod change no session, user or rolling stats;
\* and a completeSession on an open session tagged with a pod that is
\* COMPLETED or CANCELLED succeeds, marks the session completed and, when not
\* early, pays a reward above zero into the user's FocusCoins.
C29_PodEndKeepsSessions ==
  [][ /\ last'.op \in {"completePod", "cancelPod"}
           => UNCHANGED <<sessions, users, stats>>
      /\ \A s \in DOMAIN sessions :
           (/\ last'.op = "completeSession"
            /\ last'.id = s
            /\ ~sessions[s].completed
            /\ sessions[s].podId \in DOMAIN pods
            /\ pods[sessions[s].podId].status \in {"completed", "cancelled"})
             => /\ last'.result = "ok"
                /\ sessions'[s].completed
                /\ sessions'[s].reward = last'.reward
                /\ ~last'.early
                     => /\ last'.reward > 0
                        /\ users'[sessions[s].userId].focusCoins
                             >= users[sessions[s].userId].focusCoins + last'.reward
                        /\ users'[sessions[s].userId].totalPomodoros
                             = users[sessions[s].userId].totalPomodoros + 1
    ]_vars

\* a participant was paid for a session of a pod that had already ended
C29_Witness ==
  /\ last.op = "completeSession"
  /\ last.result = "ok"
  /\ last.reward > 0
  /\ sessions[last.id].podId \in DOMAIN pods
  /\ pods[sessions[last.id].podId].status \in {"completed", "cancelled"}
  /\ users[last.user].focusCoins >= last.reward

(***************************************************************************)
(* The bot's entry points into a pod: the pod-duration button that creates *)
(* one, the /join command, the code typed after "join by code", and the    *)
(* /start deep link that carries an invite code.                           *)
(***************************************************************************)
MaxBotPods == 2

\* db.getPodByInviteCode
findPodByInviteCode(db, inviteCode) ==
  LET S == {p \in DOMAIN db.pods : db.pods[p].inviteCode = inviteCode}
  IN IF S = {} THEN NoPod ELSE CHOOSE p \in S : \A q \in S : p <= q

\* ensureNoActivePomodoroSession: TRUE when the user has a running session
ensureNoActivePomodoroSession(db, userId) == getActiveSession(db, userId) # {}

\* ensureNoActivePod: TRUE when the user is in a WAITING or ACTIVE pod
ensureNoActivePod(db, userId) == getUserActivePod(db, userId) # NoPod

handlePodDuration(db, userId, duration, inviteCode) ==
  IF ensureNoActivePomodoroSession(db, userId)
    THEN [result |-> "SessionAlreadyActive", db |-> db]
  ELSE IF ensureNoActivePod(db, userId)
    THEN [result |-> "AlreadyInPod", db |-> db]
  ELSE LET r == createPod(db, userId, duration, inviteCode)
       IN [result |-> IF r.ok THEN "ok" ELSE "DuplicateInviteCode", db |-> r.db]

processPodJoinByCode(db, userId, inviteCode) ==
  IF ensureNoActivePomodoroSession(db, userId)
    THEN [result |-> "SessionAlreadyActive", db |-> db]
  ELSE IF ensureNoActivePod(db, userId)
    THEN [result |-> "AlreadyInPod", db |-> db]
  ELSE IF findPodByInviteCode(db, inviteCode) = NoPod
    THEN [result |-> "PodNotFound", db |-> db]
  ELSE IF AlreadyJoined(db.pods[findPodByInviteCode(db, inviteCode)], userId)
    THEN [result |-> "AlreadyJoined", db |-> db]
  ELSE joinPod(db, findPodByInviteCode(db, inviteCode), userId)

\* handlePodCodeInput: its own lookup and membership test, then the common path
handlePodCodeInput(db, userId, inviteCode) ==
  IF findPodByInviteCode(db, inviteCode) = NoPod
    THEN [result |-> "PodNotFound", db |-> db]
  ELSE IF AlreadyJoined(db.pods[findPodByInviteCode(db, inviteCode)], userId)
    THEN [result |-> "AlreadyJoined", db |-> db]
  ELSE processPodJoinByCode(db, userId, inviteCode)

\* handleStart with the payload pod_<code>: lookup, membership test, joinPod
handleStart(db, userId, inviteCode) ==
  IF findPodByInviteCode(db, inviteCode) = NoPod
    THEN [result |-> "PodNotFound", db |-> db]
  ELSE IF AlreadyJoined(db.pods[findPodByInviteCode(db, inviteCode)], userId)
    THEN [result |-> "AlreadyJoined", db |-> db]
  ELSE joinPod(db, findPodByInviteCode(db, inviteCode), userId)

HandlePodDuration(userId, duration, inviteCode) ==
  LET r == handlePodDuration(DB, userId, duration, inviteCode)
  IN /\ Len(r.db.pods) <= MaxBotPods
     /\ Commit(r.db)
     /\ last' = Call("handlePodDuration",
                     IF r.result = "ok" THEN Len(r.db.pods) ELSE 0,
                     userId, r.result, 0)
     /\ BotStep
     /\ UNCHANGED timers

HandleJoinCommand(userId, inviteCode) ==
  LET r == processPodJoinByCode(DB, userId, inviteCode)
  IN /\ Commit(r.db)
     /\ last' = Call("handleJoinCommand", findPodByInviteCode(DB, inviteCode),
                     userId, r.result, 0)
     /\ BotStep
     /\ UNCHANGED timers

HandlePodCodeInput(userId, inviteCode) ==
  LET r == handlePodCodeInput(DB, userId, inviteCode)
  IN /\ Commit(r.db)
     /\ last' = Call("handlePodCodeInput", findPodByInviteCode(DB, inviteCode),
                     userId, r.result, 0)
     /\ BotStep
     /\ UNCHANGED timers

HandleStart(userId, inviteCode) ==
  LET r == handleStart(DB, userId, inviteCode)
  IN /\ Commit(r.db)
     /\ last' = Call("handleStart", findPodByInviteCode(DB, inviteCode),
                     userId, r.result, 0)
     /\ BotStep
     /\ UNCHANGED timers

NextJoin ==
  \/ \E u \in Users, d \in PodDurations, c \in Codes : HandlePodDuration(u, d, c)
  \/ \E u \in Users, c \in Codes : HandleJoinCommand(u, c)
  \/ \E u \in Users, c \in Codes : HandlePodCodeInput(u, c)
  \/ \E u \in Users, c \in Codes : HandleStart(u, c)
  \/ \E u \in Users, d \in BotDurations : HandleFocusStart(u, d)
  \/ \E p \in 1..MaxBotPods, u \in Users : HandlePodStart(p, u)
  \/ \E p \in 1..MaxBotPods, u \in Users : HandlePodCancel(p, u)

SpecJoin == Init /\ [][NextJoin]_vars

\* the WAITING and ACTIVE pods that list the user as a participant
LivePodsOf(userId) ==
  {p \in DOMAIN pods : /\ pods[p].status \in {"waiting", "active"}
                       /\ AlreadyJoined(pods[p], userId)}

\* C30: through the bot's entry points no user is a participant of more than
\* one pod that is WAITING or ACTIVE.
C30_OneLivePod ==
  \A u \in Users : Cardinality(LivePodsOf(u)) <= 1

(***************************************************************************)
(* The streak update next to the generic achievement sweep.  updateStreak  *)
(* stores the new streak and only then awaits checkStreakAchievements,     *)
(* with no try/catch: when the store rejects the write of unlockAchievement *)
(* the streak stays stored and the achievement does not.                   *)
(***************************************************************************)
SweepFrame == UNCHANGED <<now, steps, procs, calc, timers, cron, completers>>

\* updateStreak whose db.updateUser inside unlockAchievement throws
UpdateStreakUnlockFails(userId) ==
  LET r == updateStreak(DB, userId, now)
  IN /\ r.users[userId].achievements # users[userId].achievements
     /\ Commit([r EXCEPT !.users[userId].achievements = users[userId].achievements,
                         !.users[userId].focusCoins = users[userId].focusCoins,
                         !.notifications = notifications])
     /\ last' = Call("updateStreak", 0, userId, "StoreError", 0)
     /\ SweepFrame

\* gamificationService.checkAchievements(userId), as tasks.ts and
\* completeSession call it
CheckAchievements(userId) ==
  LET r == checkAchievements(DB, userId)
  IN /\ Commit(r.db)
     /\ last' = Call("checkAchievements", Len(r.unlocked), userId, "ok", 0)
     /\ SweepFrame

NextSweep ==
  \/ StreakTick
  \/ \E u \in Users : UpdateStreak(u)
  \/ \E u \in Users : UpdateStreakUnlockFails(u)
  \/ \E u \in Users : CheckAchievements(u)

SpecSweep == Init /\ [][NextSweep]_vars

\* C31: a streak achievement enters a user's unlocked list only in a step
\* that leaves the user's streak equal to the achievement's threshold, and
\* never through the checkAchievements sweep while the streak is above it.
C31_StreakExact ==
  [][ \A u \in Users, i \in DOMAIN ACHIEVEMENTS :
        (/\ ACHIEVEMENTS[i].type = "streak"
         /\ ~AlreadyUnlocked(users[u], ACHIEVEMENTS[i].id)
         /\ AlreadyUnlocked(users'[u], ACHIEVEMENTS[i].id))
          => users'[u].currentStreak = ACHIEVEMENTS[i].count
    ]_vars

\* the counter a catalog entry of the four counted types is measured against
CounterOf(u, type) ==
  CASE type = "pomodoros" -> users[u].totalPomodoros
    [] type = "tasks" -> users[u].completedTasks
    [] type = "focus_hours" -> users[u].totalFocusMinutes \div 60
    [] type = "pods" -> Cardinality({p \in DOMAIN pods : pods[p].creatorId = u})
    [] OTHER -> 0

\* C32: the checkAchievements call made inside completeSession returns exactly
\* the ids it newly unlocked, each once and none that was held before; it
\* credits the sum of their rewards; and after it every catalog achievement
\* of type pomodoros, tasks, focus_hours or pods whose threshold the user's
\* counters meet is held.
C32_SweepReturns ==
  [][ \A p \in Procs :
        (completers[p].pc = "checkAchievements" /\ completers'[p].pc = "updateSession")
          => LET u == sessions[completers[p].sessionId].userId
                 returned == completers'[p].achievements
                 new == Range(users'[u].achievements) \ Range(users[u].achievements)
             IN /\ Range(returned) = new
                /\ Len(returned) = Cardinality(new)
                /\ Len(users'[u].achievements) =
                     Len(users[u].achievements) + Cardinality(new)
                /\ users'[u].focusCoins = users[u].focusCoins + SumRewards(new)
                /\ \A i \in DOMAIN ACHIEVEMENTS :
                     (/\ ACHIEVEMENTS[i].type \in
                           {"pomodoros", "tasks", "focus_hours", "pods"}
                      /\ (CounterOf(u, ACHIEVEMENTS[i].type) >= ACHIEVEMENTS[i].count)')
                       => AlreadyUnlocked(users'[u], ACHIEVEMENTS[i].id)
    ]_vars

\* a sweep has just returned first_focus and paid its five coins
C32_Witness ==
  \E p \in Procs :
    /\ completers[p].pc = "updateSession"
    /\ completers[p].achievements = <<"first_focus">>
    /\ users[sessions[completers[p].sessionId].userId].totalPomodoros >= 1
    /\ users[sessions[completers[p].sessionId].userId].focusCoins >= 5

\* C33: every user has bestStreak >= currentStreak >= 0 before and after
\* every step, and no step lowers a user's bestStreak.
C33_BestStreak ==
  [][ \A u \in Users :
        /\ users[u].bestStreak >= users[u].currentStreak
        /\ users[u].currentStreak >= 0
        /\ users'[u].bestStreak >= users'[u].currentStreak
        /\ users'[u].currentStreak >= 0
        /\ users'[u].bestStreak >= users[u].bestStreak
    ]_vars

\* a streak broke: the update set it back to 1 under a best of 2 or more
C33_Witness ==
  /\ last.op = "updateStreak"
  /\ users[last.user].currentStreak = 1
  /\ users[last.user].bestStreak >= 2
  /\ DateString(users[last.user].lastActiveDate) = DateString(now)

\* C34: after every successful startSession the user's currentStreak is at
\* least 1, also for a user who starts a first session on the day of
\* registration.
C34_StartCountsForStreak ==
  [][ (last'.op = "startSession" /\ last'.result = "ok")
        => users'[last'.user].currentStreak >= 1
    ]_vars

(***************************************************************************)
(* The two reset jobs as the event loop runs them when both are due at the *)
(* same Monday 00:00: each walks the users, reads a user's stats row,      *)
(* changes its own fields in the object it read and writes the whole       *)
(* object back.  cron.jobs holds each job's position and the row it read.  *)
(***************************************************************************)
ResetJobs == {"reset_daily", "reset_weekly"}

\* db.getAllUsers(): the users in the order the store returns them
AllUsers == <<"u1", "u2">>

ResetFrame ==
  UNCHANGED <<now, steps, users, sessions, pods, notifications, last, procs, calc,
              timers, completers>>

\* the fields the job sets to zero in the row it has read
ResetFields(name, st) ==
  IF name = "reset_daily"
    THEN [st EXCEPT !.todayPomodoros = 0, !.todayFocusMinutes = 0]
    ELSE [st EXCEPT !.weekPomodoros = 0, !.weekFocusMinutes = 0,
                    !.weekTasksCompleted = 0, !.weekFocusCoins = 0]

\* the job's position after it is through with user k
NextUser(job) ==
  IF job.k + 1 > Len(AllUsers)
    THEN [pc |-> "done", k |-> 0, stats |-> NoStats]
    ELSE [pc |-> "getUserStats", k |-> job.k + 1, stats |-> NoStats]

\* Monday 00:00: node-cron calls the callbacks of both reset tasks
MondayMidnight ==
  /\ ResetJobs \subseteq cron.running
  /\ \A n \in ResetJobs : cron.jobs[n].pc = "idle"
  /\ cron' = [cron EXCEPT !.jobs = [n \in ResetJobs |->
                 [pc |-> "getUserStats", k |-> 1, stats |-> NoStats]]]
  /\ UNCHANGED stats
  /\ ResetFrame

\* const stats = await db.getUserStats(user.id); if (stats) { ... }
ResetGetUserStats(name) ==
  /\ cron.jobs[name].pc = "getUserStats"
  /\ LET job == cron.jobs[name]
         st == stats[AllUsers[job.k]]
     IN cron' = [cron EXCEPT !.jobs[name] =
                   IF st = NoStats THEN NextUser(job)
                   ELSE [job EXCEPT !.pc = "updateUserStats",
                                    !.stats = ResetFields(name, st)]]
  /\ UNCHANGED stats
  /\ ResetFrame

\* await db.updateUserStats(user.id, stats): every column of the row is written
ResetUpdateUserStats(name) ==
  /\ cron.jobs[name].pc = "updateUserStats"
  /\ stats' = [stats EXCEPT ![AllUsers[cron.jobs[name].k]] = cron.jobs[name].stats]
  /\ cron' = [cron EXCEPT !.jobs[name] = NextUser(cron.jobs[name])]
  /\ ResetFrame

\* a pomodoro earned before the midnight
EarnBeforeMidnight(userId, duration) ==
  /\ \A n \in ResetJobs : cron.jobs[n].pc = "idle"
  /\ StartSession(userId, duration)

FinishBeforeMidnight(sessionId) ==
  /\ \A n \in ResetJobs : cron.jobs[n].pc = "idle"
  /\ CompleteSession(sessionId, NoAction, FALSE)

NextReset ==
  \/ Initialize
  \/ MondayMidnight
  \/ \E n \in ResetJobs : ResetGetUserStats(n)
  \/ \E n \in ResetJobs : ResetUpdateUserStats(n)
  \/ \E u \in Users, d \in PodDurations : EarnBeforeMidnight(u, d)
  \/ \E s \in 1..MaxSessions : FinishBeforeMidnight(s)

SpecReset == Init /\ [][NextReset]_vars

\* C35: once the daily and the weekly reset that fired together have both
\* finished, every user's daily and weekly counters are zero.
C35_BothResetsDone ==
  (\A n \in ResetJobs : cron.jobs[n].pc = "done")
    => \A u \in Users : /\ DayCounters(stats[u]) = <<0, 0>>
                        /\ WeekCounters(stats[u]) = <<0, 0, 0, 0>>

(***************************************************************************)
(* startSession and joinPod as the event loop runs them: each await on the *)
(* store is a point where another request may run.  procs[p] holds the     *)
(* locals of request p.                                                    *)
(***************************************************************************)
\* the ids that ask to join; joinPod never looks the joining user up
Joiners == {"u2", "u3"}

RaceFrame == UNCHANGED <<now, steps, last, calc, timers, cron, completers>>

\* a request enters startSession(userId, duration)
StartCall(p, userId) ==
  /\ procs[p].pc = "idle"
  /\ procs[p].calls < MaxCalls
  /\ procs' = [procs EXCEPT ![p] =
                 [IdleProc EXCEPT !.pc = "getUserSessions", !.userId = userId,
                                  !.calls = procs[p].calls + 1]]
  /\ UNCHANGED storeVars
  /\ RaceFrame

\* await db.getUserSessions; the find of an open session; the throw
StartGetUserSessions(p) ==
  /\ procs[p].pc = "getUserSessions"
  /\ procs' = [procs EXCEPT ![p] =
                 IF HasOpenSession(DB, procs[p].userId)
                   THEN [@ EXCEPT !.pc = "idle", !.result = "SessionAlreadyActive"]
                   ELSE [@ EXCEPT !.pc = "createSession"]]
  /\ UNCHANGED storeVars
  /\ RaceFrame

\* await db.createSession(session)
StartCreateSession(p) ==
  /\ procs[p].pc = "createSession"
  /\ Len(sessions) < MaxSessions
  /\ sessions' = Append(sessions,
       [userId |-> procs[p].userId, duration |-> 10, startTime |-> now,
        endTime |-> NoTime, completed |-> FALSE, taskAction |-> NoAction,
        podId |-> NoPod, reward |-> 0])
  /\ procs' = [procs EXCEPT ![p].pc = "updateStreak"]
  /\ UNCHANGED <<users, stats, pods, notifications>>
  /\ RaceFrame

\* await gamificationService.updateStreak(userId); return session
StartUpdateStreak(p) ==
  /\ procs[p].pc = "updateStreak"
  /\ Commit(updateStreak(DB, procs[p].userId, now))
  /\ procs' = [procs EXCEPT ![p].pc = "idle", ![p].result = "started"]
  /\ RaceFrame

\* a request enters joinPod(podId, userId, userName)
JoinCall(p, podId, userId) ==
  /\ procs[p].pc = "idle"
  /\ procs[p].calls < MaxCalls
  /\ procs' = [procs EXCEPT ![p] =
                 [IdleProc EXCEPT !.pc = "getPod", !.userId = userId,
                                  !.podId = podId,
                                  !.calls = procs[p].calls + 1]]
  /\ UNCHANGED storeVars
  /\ RaceFrame

\* await db.getPod; the guards; pod.participants.push(participant)
JoinGetPod(p) ==
  /\ procs[p].pc = "getPod"
  /\ procs' = [procs EXCEPT ![p] =
       IF procs[p].podId \notin DOMAIN pods
         THEN [@ EXCEPT !.pc = "idle", !.result = "PodNotFound"]
       ELSE IF ~JoinAllowed(pods[procs[p].podId])
         THEN [@ EXCEPT !.pc = "idle", !.result = "PodAlreadyStarted"]
       ELSE IF AlreadyJoined(pods[procs[p].podId], procs[p].userId)
         THEN [@ EXCEPT !.pc = "idle", !.result = "joined"]
       ELSE [@ EXCEPT !.pc = "updatePod",
                      !.participants =
                          Append(pods[procs[p].podId].participants,
                                 [userId |-> procs[p].userId, isCreator |-> FALSE,
                                  taskAction |-> NoAction, taskCompleted |-> FALSE])]]
  /\ UNCHANGED storeVars
  /\ RaceFrame

\* await db.updatePod(podId, { participants: pod.participants })
JoinUpdatePod(p) ==
  /\ procs[p].pc = "updatePod"
  /\ pods' = [pods EXCEPT ![procs[p].podId].participants = procs[p].participants]
  /\ procs' = [procs EXCEPT ![p].pc = "createNotification"]
  /\ UNCHANGED <<users, stats, sessions, notifications>>
  /\ RaceFrame

\* await db.createNotification for the creator; return pod
JoinNotify(p) ==
  /\ procs[p].pc = "createNotification"
  /\ notifications' =
       createNotification(DB, pods[procs[p].podId].creatorId, "pod_invite").notifications
  /\ procs' = [procs EXCEPT ![p].pc = "idle", ![p].result = "joined"]
  /\ UNCHANGED <<users, stats, sessions, pods>>
  /\ RaceFrame

NextRace ==
  \/ \E p \in Procs, u \in Users : StartCall(p, u)
  \/ \E p \in Procs : StartGetUserSessions(p)
  \/ \E p \in Procs : StartCreateSession(p)
  \/ \E p \in Procs : StartUpdateStreak(p)
  \/ \E d \in PodDurations : CreatePod("u1", d, BotCode)
  \/ \E p \in Procs, q \in 1..MaxPods, u \in Joiners : JoinCall(p, q, u)
  \/ \E p \in Procs : JoinGetPod(p)
  \/ \E p \in Procs : JoinUpdatePod(p)
  \/ \E p \in Procs : JoinNotify(p)

SpecRace == Init /\ [][NextRace]_vars

\* C36: however two startSession calls for one user interleave, the user never
\* has more than one open session.
C36_StartRace ==
  \A u \in Users : Cardinality(OpenSessionsOf(u)) <= 1

\* C37: once the interleaved joinPod calls have returned, every user whose
\* join succeeded is in the pod's participant list exactly once.
C37_JoinRace ==
  (\A p \in Procs : procs[p].pc = "idle")
    => \A p \in Procs :
         (procs[p].result = "joined" /\ procs[p].podId \in DOMAIN pods)
           => Cardinality({k \in DOMAIN pods[procs[p].podId].participants :
                             pods[procs[p].podId].participants[k].userId
                               = procs[p].userId}) = 1

(***************************************************************************)
(* The scheduler on the clock.  The clock starts on a Sunday 00:00 and     *)
(* moves from one cron instant to the next (00:00, 09:00, 20:00); at an    *)
(* instant every running task whose pattern matches fires once             *)
(* (cron.done), the resets as the interleaved jobs described above.        *)
(***************************************************************************)
HourUnits == 60 * UnitsPerMinute

HourOfDay(t) == (t % DayUnits) \div HourUnits

\* the day of the week as cron counts it: 0 is Sunday, 1 is Monday
Weekday(t) == DateString(t) % 7

\* the cron patterns of setupScheduledNotifications
Due(name, t) ==
  CASE name = "daily_reminder" -> HourOfDay(t) = 9
    [] name = "streak_warning" -> HourOfDay(t) = 20
    [] name = "weekly_stats" -> HourOfDay(t) = 9 /\ Weekday(t) = 1
    [] name = "reset_daily" -> HourOfDay(t) = 0
    [] name = "reset_weekly" -> HourOfDay(t) = 0 /\ Weekday(t) = 1

\* the next instant at which some pattern matches
NextInstant(t) ==
  IF HourOfDay(t) < 9 THEN DateString(t) * DayUnits + 9 * HourUnits
  ELSE IF HourOfDay(t) < 20 THEN DateString(t) * DayUnits + 20 * HourUnits
  ELSE (DateString(t) + 1) * DayUnits

\* every task due at the present instant has run to its end
Settled ==
  /\ \A n \in cron.running : Due(n, now) => n \in cron.done
  /\ \A n \in ResetJobs : cron.jobs[n].pc \in {"idle", "done"}

WeekFrame == UNCHANGED <<now, steps, procs, calc, timers, completers>>

\* createBot at the start of the clock: the tasks are scheduled and wait for
\* their next instant
InitializeAtStart ==
  /\ ~cron.initialized
  /\ cron' = [cron EXCEPT !.initialized = TRUE, !.registered = TaskNames,
                          !.running = TaskNames, !.done = TaskNames]
  /\ last' = Call("initialize", 0, "none", "ok", 0)
  /\ WeekFrame
  /\ UNCHANGED storeVars

\* the clock reaches the next cron instant
Advance ==
  /\ cron.initialized
  /\ Settled
  /\ NextInstant(now) <= MaxDays * DayUnits
  /\ now' = NextInstant(now)
  /\ cron' = [cron EXCEPT !.done = {},
                          !.jobs = [n \in ResetJobs |->
                                      [pc |-> "idle", k |-> 0, stats |-> NoStats]]]
  /\ last' = Call("tick", 0, "none", "ok", 0)
  /\ UNCHANGED <<steps, procs, calc, timers, completers>>
  /\ UNCHANGED storeVars

\* a reminder task fires at its instant
FireAt(name, db) ==
  /\ name \in cron.running \ cron.done
  /\ Due(name, now)
  /\ Commit(db)
  /\ cron' = [cron EXCEPT !.done = @ \cup {name}]
  /\ last' = Call(name, 0, "none", "ok", 0)
  /\ WeekFrame

DailyReminderAt ==
  /\ HourOfDay(now) = 9
  /\ FireAt("daily_reminder", sendDailyReminders(DB))

StreakWarningAt ==
  /\ HourOfDay(now) = 20
  /\ FireAt("streak_warning", sendStreakWarnings(DB, now))

WeeklyStatsAt ==
  /\ HourOfDay(now) = 9
  /\ FireAt("weekly_stats", sendWeeklyStats(DB))

\* 00:00: the callbacks of the reset tasks that are due are called
Midnight ==
  /\ HourOfDay(now) = 0
  /\ "reset_daily" \in cron.running \ cron.done
  /\ cron' = [cron EXCEPT
       !.done = @ \cup ResetJobs,
       !.jobs = [n \in ResetJobs |->
                   IF n \in cron.running /\ Due(n, now)
                     THEN [pc |-> "getUserStats", k |-> 1, stats |-> NoStats]
                     ELSE [pc |-> "idle", k |-> 0, stats |-> NoStats]]]
  /\ last' = Call("midnight", 0, "none", "ok", 0)
  /\ WeekFrame
  /\ UNCHANGED storeVars

\* a pomodoro earned while no task is running
EarnSettled(userId, duration) ==
  /\ Settled
  /\ StartSession(userId, duration)

FinishSettled(sessionId) ==
  /\ Settled
  /\ CompleteSession(sessionId, NoAction, FALSE)

NextWeek ==
  \/ InitializeAtStart
  \/ Advance
  \/ DailyReminderAt
  \/ StreakWarningAt
  \/ WeeklyStatsAt
  \/ Midnight
  \/ \E n \in ResetJobs : ResetGetUserStats(n)
  \/ \E n \in ResetJobs : ResetUpdateUserStats(n)
  \/ \E u \in Users, d \in PodDurations : EarnSettled(u, d)
  \/ \E s \in 1..MaxSessions : FinishSettled(s)

SpecWeek == Init /\ [][NextWeek]_vars

\* the user's sessions completed since the 00:00 of the present day
CompletedToday(u) ==
  {s \in DOMAIN sessions : /\ sessions[s].userId = u
                           /\ sessions[s].completed
                           /\ sessions[s].endTime >= DateString(now) * DayUnits}

\* C38: when the weekly summary fires on a Monday at 09:00 the weekly reset of
\* 00:00 has already run: a user's weekPomodoros counts the pomodoros completed
\* since that midnight, and a user gets a summary only for such pomodoros.
C38_SummaryAfterReset ==
  [][ (/\ "weekly_stats" \notin cron.done
       /\ "weekly_stats" \in cron'.done
       /\ last'.op = "weekly_stats")
        => \A u \in Users :
             /\ StatsOrZero(stats[u]).weekPomodoros = Cardinality(CompletedToday(u))
             /\ notifications'[u]["weekly_stats"] =
                  notifications[u]["weekly_stats"]
                    + (IF CompletedToday(u) # {} THEN 1 ELSE 0)
    ]_vars

====
